---- MODULE Spec2Model ----
(***************************************************************************)
(* Model of the manga-translate content resolution and translation         *)
(* pipeline:                                                               *)
(*   - the server's in-memory TTL cache (getCached / setCache),            *)
(*   - the handlers that use it: cover-proxy, trending and search,         *)
(*   - the page handler GET /api/manga/chapter/:id/pages,                  *)
(*   - the chapter resolution: GET /api/manga/:id/chapters followed by the *)
(*     reader's scrape fallback (loadChapters, GET /api/scrape/chapters),  *)
(*   - the grouping of OCR words into blocks in POST /api/ai/translate,    *)
(*   - the handlers that run translate_bridge.py,                          *)
(*   - the progress store behind /api/progress,                            *)
(*   - the Reader component: navigation, page loading, translatePage runs  *)
(*     and the debounced progress write.                                   *)
(* Every await of a handler is one step of its request; the answers of the *)
(* external providers are inputs chosen at that step.                      *)
(***************************************************************************)
EXTENDS Integers, Sequences, FiniteSets, TLC

VARIABLES
    \* ---- TTL cache ----
    apiCache,   \* the Map: a function whose DOMAIN is the set of stored keys
    now,        \* Date.now(), in milliseconds
    ticks,      \* number of clock advances so far (bounds the run)
    lastSet,    \* history: per key, the data and time of the latest setCache
    got         \* the getCached call that has just returned: [key, result]

cacheVars == <<apiCache, now, ticks, lastSet, got>>

VARIABLES
    \* ---- the cached handlers: cover-proxy, trending, search (74-149) ----
    lpc,        \* position of the request: "idle", "fetching", "done"
    lreq,       \* the request: [handler, param]
    lanswer,    \* the provider's answer, once the fetch has settled
    lresp,      \* the response sent: [status, body]
    lbefore     \* history: the Map when the request came in

listingVars == <<lpc, lreq, lanswer, lresp, lbefore>>

VARIABLES
    \* ---- GET /api/manga/chapter/:id/pages ----
    ppc,        \* position of the request: "idle", "getPages", "atHome", "done"
    preq,       \* the request: [id, source]
    pjson,      \* the at-home answer of the primary provider, once received
    presp,      \* the response sent: [status, pages]
    pcalls,     \* provider calls made by the request, in order
    pused,      \* which list supplied the response
    pworld      \* what the metadata service and the community index hold

pageVars == <<ppc, preq, pjson, presp, pcalls, pused, pworld>>

VARIABLES
    \* ---- chapter resolution: GET /api/manga/:id/chapters + loadChapters ----
    cpc,        \* position: "idle", "byId", "search", "corrected", "kakalot",
                \*           "reader", "scrape", "done"
    creq,       \* the request: [id, title, source]
    chapters,   \* the handler's local `chapters`
    byIdCount,  \* history: how many chapters the lookup by the given id built
    csearch,    \* the answer of the title search, once received
    cfeed,      \* history: the feed answer that `chapters` was built from,
                \* noted when it built at least one chapter
    cresp,      \* the handler's response: [status, body]
    clist,      \* what the reader ends with: [status, list]
    cpath,      \* which path supplied the reader's list
    ccalls,     \* provider calls made for the request, in order
    lastHit     \* history: the request of an earlier call that the primary
                \* provider answered with at least one chapter

chapterVars == <<cpc, creq, chapters, byIdCount, csearch, cfeed, cresp, clist,
                 cpath, ccalls, lastHit>>

VARIABLES
    \* ---- POST /api/ai/translate: grouping of the OCR words (797-831) ----
    kpc,          \* position: "idle", "loop", "done"
    kwords,       \* the words of ocrData.words the loop has gone through
    blocks,       \* the handler's local `blocks`
    currentBlock  \* the handler's local `currentBlock`

clusterVars == <<kpc, kwords, blocks, currentBlock>>

VARIABLES
    \* ---- the requests that run translate_bridge.py ----
    bpc,        \* position: "idle", "waiting", "closed", "done"
    breq,       \* the request: endpoint and body
    bsent,      \* the payload written to the bridge's stdin
    bout,       \* exit code and stdout of the bridge, once it has closed
    bresp       \* the response sent

bridgeVars == <<bpc, breq, bsent, bout, bresp>>

VARIABLES
    \* ---- /api/progress and the read_progress table ----
    readProgress, \* the rows of the table
    lastWrite,    \* history: per (user, manga), the row of the latest upsert
    writes,       \* number of upserts the store has taken (bounds the run)
    gresp         \* the response of the latest request: [status, row]

progressVars == <<readProgress, lastWrite, writes, gresp>>

VARIABLES
    \* ---- the Reader component (App.tsx lines 1118-1353) ----
    rmounted,         \* the Reader is on screen
    currentChapter,   \* state `currentChapter`: a chapter id, or "none"
    pages,            \* state `pages`: the page URLs
    currentPage,      \* state `currentPage`
    pageFetches,      \* chapters whose page request is in flight
    translations,     \* state `translations`: the page URL whose texts are
                      \* shown, or NoTranslations for []
    runs,             \* translatePage runs in flight: [url, pc, isAborted]
    timers,           \* pending timeouts: [id, rem, body]
    progressTimerRef, \* progressTimerRef.current: a timer id, 0 for null
    timersSet,        \* number of setTimeout calls so far (next timer id)
    navs,             \* number of user actions so far (bounds the run)
    sinceEvent,       \* history: time since the save-progress effect last
                      \* scheduled a write, capped at the debounce window
    runWrites,        \* history: writes since the first event of the run
    latestEvent,      \* history: the position of the latest event
    lastPost,         \* history: the body of the latest POST /api/progress
    chapterIndex,     \* state `chapterIndex`
    restored          \* history: the progress record loadChapters restored,
                      \* until the user navigates

readerVars == <<rmounted, currentChapter, pages, currentPage, pageFetches,
                translations, runs, timers, progressTimerRef, timersSet,
                navs, sinceEvent, runWrites, latestEvent, lastPost,
                chapterIndex, restored>>

vars == <<apiCache, now, ticks, lastSet, got,
          lpc, lreq, lanswer, lresp, lbefore,
          ppc, preq, pjson, presp, pcalls, pused, pworld,
          cpc, creq, chapters, byIdCount, csearch, cfeed, cresp, clist,
          cpath, ccalls, lastHit,
          kpc, kwords, blocks, currentBlock,
          bpc, breq, bsent, bout, bresp,
          readProgress, lastWrite, writes, gresp,
          rmounted, currentChapter, pages, currentPage, pageFetches,
          translations, runs, timers, progressTimerRef, timersSet,
          navs, sinceEvent, runWrites, latestEvent, lastPost,
          chapterIndex, restored>>

\* what the steps of one component leave alone
notCache == <<listingVars, pageVars, chapterVars, clusterVars, bridgeVars,
              progressVars, readerVars>>
notListing == <<pageVars, chapterVars, clusterVars, bridgeVars, progressVars,
                readerVars>>
notPages == <<cacheVars, listingVars, chapterVars, clusterVars, bridgeVars, progressVars,
              readerVars>>
notChapters == <<cacheVars, listingVars, pageVars, clusterVars, bridgeVars, progressVars,
                 readerVars>>
notCluster == <<cacheVars, listingVars, pageVars, chapterVars, bridgeVars, progressVars,
                readerVars>>
notBridge == <<cacheVars, listingVars, pageVars, chapterVars, clusterVars, progressVars,
               readerVars>>
notProgress == <<cacheVars, listingVars, pageVars, chapterVars, clusterVars, bridgeVars,
                 readerVars>>
notReader == <<cacheVars, listingVars, pageVars, chapterVars, clusterVars, bridgeVars,
               progressVars>>

----------------------------------------------------------------------------
(* Bounds of the model *)

\* how many times the clock advances in one run
MaxTicks == 4

\* longest page list a provider answers with
MaxPages == 2

\* most uploads in the community feed of one manga
MaxUploads == 2

\* longest chapter feed a provider answers with
MaxFeed == 3

\* most words the OCR engine recognises on one page
MaxWords == 3

\* most texts in one translate request
MaxTexts == 2

\* how many upserts the progress store takes in one run
MaxWrites == 3

\* how many times the reader opens, closes, flips or picks a chapter
MaxNav == 3

----------------------------------------------------------------------------
(* Helpers *)

SeqsUpTo(S, n) == UNION {[1..k -> S] : k \in 0..n}

\* a missing JSON attribute (null or undefined), falsy like the empty string
ABSENT == "<absent>"

Truthy(v) == v # ABSENT /\ v # ""

----------------------------------------------------------------------------
(* TTL cache: src/unnamed/part_002 lines 18-28 *)

CACHE_TTL == 10 * 60 * 1000

\* JavaScript null, the answer of getCached for a miss
Null == "null"

CacheKeys == {"trending:", "search:q:"}

CacheValues == {"v1", "v2"}

\* the clock advances by one millisecond or by just under the TTL, so that
\* every reading of t + TTL - 1, t + TTL and t + TTL + 1 occurs
ClockSteps == {1, CACHE_TTL - 1}

NoGet == [key |-> Null, result |-> Null]

\* the test of line 23 with <= in place of <
CacheFreshInclusive(entry, t) == t - entry.ts <= CACHE_TTL

\* line 23: Date.now() - entry.ts < CACHE_TTL
CacheFresh(entry, t) == t - entry.ts < CACHE_TTL

\* getCached(key): the value returned (lines 21-25)
GetCachedValue(cache, key, t) ==
    IF key \in DOMAIN cache /\ CacheFresh(cache[key], t)
    THEN cache[key].data
    ELSE Null

\* a getCached that would renew the entry it reads (sliding expiration)
CacheAfterGetRefreshing(cache, key, t) ==
    IF key \in DOMAIN cache THEN [cache EXCEPT ![key].ts = t] ELSE cache

\* getCached(key): the Map after the call; the function only reads the Map
CacheAfterGet(cache, key, t) == cache

\* setCache(key, data): the Map after apiCache.set (lines 26-28)
CacheAfterSet(cache, key, data, t) ==
    [k \in DOMAIN cache \cup {key} |->
        IF k = key THEN [data |-> data, ts |-> t] ELSE cache[k]]

\* time passes between two calls
Tick ==
    /\ ticks < MaxTicks
    /\ \E d \in ClockSteps : now' = now + d
    /\ ticks' = ticks + 1
    /\ got' = NoGet
    /\ UNCHANGED <<apiCache, lastSet>>
    /\ UNCHANGED notCache

SetCache ==
    \E key \in CacheKeys, data \in CacheValues :
        /\ apiCache' = CacheAfterSet(apiCache, key, data, now)
        /\ lastSet' = [k \in DOMAIN lastSet \cup {key} |->
                          IF k = key THEN [data |-> data, ts |-> now]
                          ELSE lastSet[k]]
        /\ got' = NoGet
        /\ UNCHANGED <<now, ticks>>
        /\ UNCHANGED notCache

GetCached ==
    \E key \in CacheKeys :
        /\ got' = [key |-> key, result |-> GetCachedValue(apiCache, key, now)]
        /\ apiCache' = CacheAfterGet(apiCache, key, now)
        /\ UNCHANGED <<now, ticks, lastSet>>
        /\ UNCHANGED notCache

CacheNext == Tick \/ SetCache \/ GetCached

----------------------------------------------------------------------------
(* The cached handlers: /api/cover-proxy, /api/manga/trending and
   /api/manga/search of src/unnamed/part_002 (lines 52-149) *)

ListingHandlers == {"cover", "trending", "search"}

\* req.query.url of cover-proxy, req.query.q of search; trending reads only
\* req.query.genres, which is left empty here as for search
ListingParams(handler) ==
    CASE handler = "cover" -> {"u", ABSENT}
      [] handler = "trending" -> {ABSENT}
      [] handler = "search" -> {"q", ABSENT}

ListingRequests ==
    {[handler |-> h, param |-> p] : h \in ListingHandlers, p \in {"u", "q", ABSENT}}

NoListingRequest == [handler |-> "none", param |-> ABSENT]

\* the cache key the handler builds (lines 78, 102, 129)
ListingKey(req) ==
    CASE req.handler = "cover" -> "cover:u"
      [] req.handler = "trending" -> "trending:"
      [] req.handler = "search" -> "search:q:"

\* the handler answers before any cache or provider call (lines 77, 128)
ListingAnsweredAtOnce(req) ==
    \/ req.handler = "cover" /\ ~Truthy(req.param)
    \/ req.handler = "search" /\ ~Truthy(req.param)

\* a json.data list: the id and the English title of each manga
MangadexData == <<[id |-> "m1", en |-> "T"], [id |-> "m2", en |-> ABSENT]>>

\* mapMangadexToManga, as far as id and title go (cover, genre, the random
\* rating and status do not bear on when the handlers write the cache)
mapMangadexToManga(m) ==
    [id |-> m.id, title |-> IF Truthy(m.en) THEN m.en ELSE "Unknown"]

MapList(data) == [i \in DOMAIN data |-> mapMangadexToManga(data[i])]

\* what the fetch of the provider can come to: it throws; or it resolves with
\* a status (ok or not) and a body that is JSON with a data list, JSON with a
\* data field that is no list, JSON without data, or no JSON (for the cover
\* proxy: bytes, or a body whose read fails)
ListingAnswers ==
    {[thrown |-> TRUE, ok |-> FALSE, body |-> "none", data |-> <<>>]}
    \cup {[thrown |-> FALSE, ok |-> o, body |-> b, data |-> <<>>] :
            o \in BOOLEAN, b \in {"notList", "noData", "unparsable"}}
    \cup {[thrown |-> FALSE, ok |-> o, body |-> "data", data |-> d] :
            o \in BOOLEAN,
            d \in {<<>>, MangadexData}}

NoListingAnswer == [thrown |-> FALSE, ok |-> FALSE, body |-> "none", data |-> <<>>]

NoListingResponse == [status |-> 0, body |-> <<>>]

\* whether the handler reaches its setCache call: cover-proxy tests
\* imgRes.ok (86) and then reads the body (87); trending and search parse
\* the body (109, 137) and test only json.data (111, 139)
ListingStores(req, ans) ==
    /\ ~ans.thrown
    /\ ans.body = "data"
    /\ req.handler = "cover" => ans.ok

\* the value it passes to setCache (89, 113, 141)
ListingStored(req, ans) ==
    IF req.handler = "cover" THEN <<"image">> ELSE MapList(ans.data)

\* `if (cached)` (80, 104, 131): getCached found a fresh entry; every value
\* these handlers store is an object or an array, which is truthy
ListingHit(cache, key, t) ==
    key \in DOMAIN cache /\ CacheFresh(cache[key], t)

\* the response of a request that went to the provider
ListingResponse(req, ans) ==
    IF req.handler = "cover"
    THEN (CASE ans.thrown -> [status |-> 500, body |-> "Proxy error"]
            [] ~ans.thrown /\ ~ans.ok -> 
                   [status |-> 404, body |-> "Image fetch failed"]
            [] ~ans.thrown /\ ans.ok /\ ans.body # "data" ->
                   [status |-> 500, body |-> "Proxy error"]
            [] OTHER -> [status |-> 200, body |-> <<"image">>])
    ELSE IF ans.thrown \/ ans.body \in {"unparsable", "notList"}
         THEN [status |-> 500, body |-> "Server error"]
    ELSE IF ans.body = "noData"
         THEN (IF req.handler = "trending"
               THEN [status |-> 500, body |-> "Server error"]
               ELSE [status |-> 200, body |-> <<>>])
    ELSE [status |-> 200, body |-> MapList(ans.data)]

\* the handler up to its fetch: early answers, then the cache lookup
ListingRequest ==
    /\ lpc = "idle"
    /\ \E h \in ListingHandlers :
        \E p \in ListingParams(h) :
            LET req == [handler |-> h, param |-> p]
                hit == ListingHit(apiCache, ListingKey(req), now)
            IN  /\ lreq' = req
                /\ lbefore' = apiCache
                /\ lanswer' = NoListingAnswer
                /\ IF ListingAnsweredAtOnce(req)
                   THEN /\ lpc' = "done"
                        /\ lresp' = IF h = "cover"
                                    THEN [status |-> 400, body |-> "URL required"]
                                    ELSE [status |-> 200, body |-> <<>>]
                        /\ UNCHANGED apiCache
                   ELSE /\ apiCache' = CacheAfterGet(apiCache, ListingKey(req), now)
                        /\ IF hit
                           THEN /\ lpc' = "done"
                                /\ lresp' = [status |-> 200,
                                             body |-> apiCache[ListingKey(req)].data]
                           ELSE /\ lpc' = "fetching"
                                /\ lresp' = NoListingResponse
    /\ got' = NoGet
    /\ UNCHANGED <<now, ticks, lastSet>>
    /\ UNCHANGED notListing

\* the fetch settles and the handler runs to its end
ListingAnswer ==
    /\ lpc = "fetching"
    /\ \E ans \in ListingAnswers :
        LET stored == ListingStored(lreq, ans)
            key == ListingKey(lreq)
        IN  /\ lanswer' = ans
            /\ lresp' = ListingResponse(lreq, ans)
            /\ IF ListingStores(lreq, ans)
               THEN /\ apiCache' = CacheAfterSet(apiCache, key, stored, now)
                    /\ lastSet' = [k \in DOMAIN lastSet \cup {key} |->
                                      IF k = key
                                      THEN [data |-> stored, ts |-> now]
                                      ELSE lastSet[k]]
               ELSE UNCHANGED <<apiCache, lastSet>>
    /\ lpc' = "done"
    /\ got' = NoGet
    /\ UNCHANGED <<now, ticks, lreq, lbefore>>
    /\ UNCHANGED notListing

\* the response has gone out; the next request can come
ListingEnd ==
    /\ lpc = "done"
    /\ lpc' = "idle"
    /\ lreq' = NoListingRequest
    /\ lanswer' = NoListingAnswer
    /\ lresp' = NoListingResponse
    /\ lbefore' = apiCache
    /\ got' = NoGet
    /\ UNCHANGED <<apiCache, now, ticks, lastSet>>
    /\ UNCHANGED notListing

ListingNext == ListingRequest \/ ListingAnswer \/ ListingEnd \/ Tick

----------------------------------------------------------------------------
(* Community fallback provider: src/src/services/mangaProvider.js *)

\* parseFloat of a chapter number, in tenths
ParseFloat10(s) ==
    CASE s = "0" -> 0
      [] s = "0.0" -> 0
      [] s = "1" -> 10
      [] s = "1.5" -> 15
      [] s = "2" -> 20
      [] s = "10" -> 100

\* the comparator parseFloat(a.chapter) - parseFloat(b.chapter) orders by this key
ChapterSortKey(s) == ParseFloat10(s)

\* insert e behind every element whose key is not larger: Array.prototype.sort
\* is stable
RECURSIVE InsertByChapter(_, _)
InsertByChapter(e, sorted) ==
    IF sorted = <<>> THEN <<e>>
    ELSE IF ChapterSortKey(Head(sorted).chapter) <= ChapterSortKey(e.chapter)
         THEN <<Head(sorted)>> \o InsertByChapter(e, Tail(sorted))
         ELSE <<e>> \o sorted

RECURSIVE SortByChapter(_)
SortByChapter(list) ==
    IF list = <<>> THEN <<>>
    ELSE InsertByChapter(list[Len(list)], SortByChapter(SubSeq(list, 1, Len(list) - 1)))

\* the loop of lines 41-55: one entry per chapter number, the first one seen
RECURSIVE CommunityFirstSeen(_, _)
CommunityFirstSeen(feed, seenChapters) ==
    IF feed = <<>> THEN <<>>
    ELSE LET ch == Head(feed) IN
         IF ~Truthy(ch.chapter) \/ ch.chapter \in seenChapters
         THEN CommunityFirstSeen(Tail(feed), seenChapters)
         ELSE <<[url |-> ch.id, chapter |-> ch.chapter]>>
              \o CommunityFirstSeen(Tail(feed), seenChapters \cup {ch.chapter})

\* fetchMangaChapters(title), lines 17-57, for a search that found a manga
\* (found) and a feed answer (hasData, data)
FetchMangaChapters(found, hasData, data) ==
    IF ~found THEN <<>>
    ELSE IF ~hasData THEN <<>>
    ELSE SortByChapter(CommunityFirstSeen(data, {}))

PageUrls(tier, files) ==
    [i \in 1..Len(files) |-> [tier |-> tier, file |-> files[i]]]

\* fetchPageImages(chapterId), lines 64-81: the full-quality URLs of the
\* upload's files; no files, a result that is not ok or a throw give []
FetchPageImages(files) == PageUrls("data", files)

----------------------------------------------------------------------------
(* GET /api/manga/chapter/:id/pages: src/unnamed/part_002 lines 676-744 *)

PageChapterIds == {"c1", "http://kakalot/c1"}

\* chapterIdOrUrl.includes('http')
IncludesHttp(id) == id = "http://kakalot/c1"

Sources == {"mangadex", "mangakakalot"}

FileNames == {"p1", "p2"}

FileLists == SeqsUpTo(FileNames, MaxPages)

\* the at-home answer: ok stands for json.baseUrl && json.chapter; an absent
\* data or dataSaver reads as the empty list (both fail the tests of 698, 701)
AtHomeAnswers ==
    [answered : {TRUE}, ok : BOOLEAN, data : FileLists, dataSaver : FileLists]

NoJson == [answered |-> FALSE, ok |-> FALSE, data |-> <<>>, dataSaver |-> <<>>]

UploadIds == 1..MaxUploads

\* the uploads of the community feed: the upload at position i has id i
CommunityFeeds ==
    {[i \in 1..Len(cs) |-> [id |-> i, chapter |-> cs[i]]] :
        cs \in SeqsUpTo({"1", "2"}, MaxUploads)}

\* what the fallback of lines 709-737 would read: the chapter's number and
\* the manga's title from the metadata service, the community feed of that
\* title and the files of every upload
PageWorlds ==
    [chapter : {ABSENT, "1", "2"},
     title   : {ABSENT, "T"},
     feed    : CommunityFeeds,
     filesOf : [UploadIds -> {<<>>, <<"q1">>}]]

NoWorld ==
    [chapter |-> ABSENT, title |-> ABSENT, feed |-> <<>>,
     filesOf |-> [u \in UploadIds |-> <<>>]]

\* the names bound in the handler when line 708 runs: line 678 binds the
\* route parameter as chapterIdOrUrl, not as id
PagesHandlerScope ==
    {"req", "res", "chapterIdOrUrl", "source", "url", "response", "json"}

\* lines 691-705 with the two tiers tested in the other order
SelectTierSaverFirst(json) ==
    IF json.ok /\ Len(json.dataSaver) > 0 THEN "dataSaver"
    ELSE IF json.ok /\ Len(json.data) > 0 THEN "data"
    ELSE "none"

\* lines 691-705: full quality, else data saver
SelectTier(json) ==
    IF json.ok /\ Len(json.data) > 0 THEN "data"
    ELSE IF json.ok /\ Len(json.dataSaver) > 0 THEN "dataSaver"
    ELSE "none"

\* the entry scrapedChapters.find(c => c.chapter === String(chapNum)), line 728
FindChapter(list, chapNum) ==
    LET hits == {i \in 1..Len(list) : list[i].chapter = chapNum}
    IN  IF hits = {} THEN 0 ELSE CHOOSE i \in hits : \A j \in hits : i <= j

\* lines 709-739: the community fallback; every throw inside it is caught at
\* 735 and the handler answers the empty list
CommunityFallback(world) ==
    IF ~Truthy(world.chapter)
    THEN [status |-> "ok", pages |-> <<>>, used |-> "none",
          calls |-> <<"chapterMeta">>]
    ELSE IF ~Truthy(world.title)
    THEN [status |-> "ok", pages |-> <<>>, used |-> "none",
          calls |-> <<"chapterMeta", "mangaMeta">>]
    ELSE LET scrapedChapters == FetchMangaChapters(TRUE, TRUE, world.feed)
             target == FindChapter(scrapedChapters, world.chapter)
         IN  IF target = 0
             THEN [status |-> "ok", pages |-> <<>>, used |-> "none",
                   calls |-> <<"chapterMeta", "mangaMeta", "fetchMangaChapters">>]
             ELSE LET scrapedPages ==
                          FetchPageImages(world.filesOf[scrapedChapters[target].url])
                  IN  [status |-> "ok", pages |-> scrapedPages,
                       used |-> IF scrapedPages = <<>> THEN "none" ELSE "community",
                       calls |-> <<"chapterMeta", "mangaMeta",
                                   "fetchMangaChapters", "fetchPageImages">>]

\* lines 691-744 once the at-home answer is parsed: the response, the list
\* that supplied it and the provider calls made after the at-home call
AfterAtHome(json, world) ==
    IF SelectTier(json) = "data"
    THEN [status |-> "ok", pages |-> PageUrls("data", json.data),
          used |-> "data", calls |-> <<>>]
    ELSE IF SelectTier(json) = "dataSaver"
    THEN [status |-> "ok", pages |-> PageUrls("data-saver", json.dataSaver),
          used |-> "dataSaver", calls |-> <<>>]
    ELSE IF "id" \notin PagesHandlerScope
    \* line 708 reads `id`: a ReferenceError, outside the try of line 709,
    \* caught at 740 and answered with status 500
    THEN [status |-> "error", pages |-> <<>>, used |-> "none", calls |-> <<>>]
    ELSE CommunityFallback(world)

NoResponse == [status |-> "none", pages |-> <<>>]

\* a request arrives (lines 678-681); the state of the providers is fixed
PagesRequest ==
    /\ ppc = "idle"
    /\ \E id \in PageChapterIds, source \in Sources, world \in PageWorlds :
        /\ preq' = [id |-> id, source |-> source]
        /\ pworld' = world
        /\ ppc' = IF source = "mangakakalot" \/ IncludesHttp(id)
                  THEN "getPages" ELSE "atHome"
    /\ pjson' = NoJson
    /\ presp' = NoResponse
    /\ pcalls' = <<>>
    /\ pused' = "none"
    /\ UNCHANGED notPages

\* lines 682-684: the scrape provider lists the pages
PagesGetPages ==
    /\ ppc = "getPages"
    /\ \E files \in FileLists :
        presp' = [status |-> "ok", pages |-> PageUrls("scrape", files)]
    /\ pcalls' = Append(pcalls, "getPages")
    /\ pused' = "scrape"
    /\ ppc' = "done"
    /\ UNCHANGED <<preq, pjson, pworld>>
    /\ UNCHANGED notPages

\* lines 687-744: the at-home answer arrives and is parsed
PagesAtHome ==
    /\ ppc = "atHome"
    /\ \E json \in AtHomeAnswers :
        LET r == AfterAtHome(json, pworld) IN
        /\ pjson' = json
        /\ presp' = [status |-> r.status, pages |-> r.pages]
        /\ pcalls' = <<"atHome">> \o r.calls
        /\ pused' = r.used
    /\ ppc' = "done"
    /\ UNCHANGED <<preq, pworld>>
    /\ UNCHANGED notPages

\* fetch or response.json() throws (network, malformed body): caught at 740
PagesProviderThrows ==
    /\ ppc \in {"getPages", "atHome"}
    /\ presp' = [status |-> "error", pages |-> <<>>]
    /\ pcalls' = Append(pcalls, IF ppc = "atHome" THEN "atHome" ELSE "getPages")
    /\ pused' = "none"
    /\ ppc' = "done"
    /\ UNCHANGED <<preq, pjson, pworld>>
    /\ UNCHANGED notPages

\* the response has been delivered; the handler holds no state of its own
PagesEnd ==
    /\ ppc = "done"
    /\ ppc' = "idle"
    /\ preq' = [id |-> "c1", source |-> "mangadex"]
    /\ pjson' = NoJson
    /\ presp' = NoResponse
    /\ pcalls' = <<>>
    /\ pused' = "none"
    /\ pworld' = NoWorld
    /\ UNCHANGED notPages

PagesNext ==
    PagesRequest \/ PagesGetPages \/ PagesAtHome \/ PagesProviderThrows
        \/ PagesEnd
----------------------------------------------------------------------------
(* GET /api/manga/:id/chapters: src/unnamed/part_002 lines 583-673 *)

MangaIds == {"m1", "m2"}

Titles == {"", "T"}

\* chapter numbers as the providers write them; ABSENT is a null chapter
ChapNums == {ABSENT, "0", "0.0", "1.5", "2", "10"}

\* line 605
langPriority == <<"en", "ja", "ko", "zh", "zh-hk", "zh-ro", "fr", "es", "pt-br", "ru">>

\* the feed is requested with translatedLanguage[] = langPriority (607, 611),
\* so every entry's language is one of the list
FeedLangs == {"en", "ja"}

\* Array.prototype.indexOf: zero-based, -1 when absent
IndexOf(list, x) ==
    IF \E i \in 1..Len(list) : list[i] = x
    THEN (CHOOSE i \in 1..Len(list) : list[i] = x /\ \A j \in 1..(i - 1) : list[j] # x) - 1
    ELSE -1

\* the entry at position i of a feed has id i
FeedData(Attrs, n) ==
    {[i \in 1..Len(cs) |-> [id |-> i, chapter |-> cs[i][1], lang |-> cs[i][2]]] :
        cs \in SeqsUpTo(Attrs, n)}

\* a feed answer: json.data is missing (hasData FALSE) or a list
PrimaryFeeds ==
    {[hasData |-> FALSE, data |-> <<>>]}
        \cup {[hasData |-> TRUE, data |-> d] : d \in FeedData(ChapNums \X FeedLangs, MaxFeed)}

\* the community feed behind fetchMangaChapters: all groups, any chapter
CommunityChapterFeeds ==
    {[hasData |-> FALSE, data |-> <<>>]}
        \cup {[hasData |-> TRUE, data |-> d] : d \in FeedData(ChapNums \X {"en"}, MaxFeed)}

\* what manga.getChapters() of the scrape library lists, in its own order
KakalotLists == FeedData(ChapNums \X {"en"}, MaxFeed)

\* the title search's answer: searchData.data is missing or a list of ids
SearchAnswers ==
    {[hasData |-> FALSE, data |-> <<>>]}
        \cup {[hasData |-> TRUE, data |-> d] : d \in SeqsUpTo(MangaIds, 2)}

NoAnswer == [hasData |-> FALSE, data |-> <<>>]

NoFeed == [for |-> "", hasData |-> FALSE, data |-> <<>>]

\* line 633 with <= : an entry of equal priority replaces the one kept
ReplacesKeptOnTie(chapLang, existingLang) ==
    LET newPriority == IndexOf(langPriority, chapLang)
        existingPriority == IndexOf(langPriority, existingLang)
    IN  existingPriority = -1 \/ (newPriority # -1 /\ newPriority <= existingPriority)

\* lines 630-633: whether the new entry replaces the one kept for its number
ReplacesKept(chapLang, existingLang) ==
    LET newPriority == IndexOf(langPriority, chapLang)
        existingPriority == IndexOf(langPriority, existingLang)
    IN  existingPriority = -1 \/ (newPriority # -1 /\ newPriority < existingPriority)

\* line 625: non-numbered chapters and chapter 0 are skipped
Skipped(chapNum) == ~Truthy(chapNum) \/ chapNum = "0" \/ chapNum = "0.0"

\* Map.set: a new key is appended, a known key keeps its place
MapSet(map, c) ==
    IF \E i \in 1..Len(map) : map[i].chapter = c.chapter
    THEN [i \in 1..Len(map) |-> IF map[i].chapter = c.chapter THEN c ELSE map[i]]
    ELSE Append(map, c)

MapGet(map, chapNum) == map[CHOOSE i \in 1..Len(map) : map[i].chapter = chapNum]

MapHas(map, chapNum) == \E i \in 1..Len(map) : map[i].chapter = chapNum

\* the forEach of lines 620-637
RECURSIVE ChapterMapOf(_, _)
ChapterMapOf(data, chapterMap) ==
    IF data = <<>> THEN chapterMap
    ELSE LET c == Head(data) IN
         IF Skipped(c.chapter) THEN ChapterMapOf(Tail(data), chapterMap)
         ELSE IF ~MapHas(chapterMap, c.chapter)
         THEN ChapterMapOf(Tail(data), MapSet(chapterMap, c))
         ELSE IF ReplacesKept(c.lang, MapGet(chapterMap, c.chapter).lang)
         THEN ChapterMapOf(Tail(data), MapSet(chapterMap, c))
         ELSE ChapterMapOf(Tail(data), chapterMap)

\* buildChapterList(json), lines 617-647
BuildChapterList(json) ==
    IF ~json.hasData \/ Len(json.data) = 0 THEN <<>>
    ELSE SortByChapter(ChapterMapOf(json.data, <<>>))

\* line 654 without its test of chapters.length
NeedsTitleSearchAlways(list, title) == Truthy(title)

\* line 654: chapters.length === 0 && title
NeedsTitleSearch(list, title) == Len(list) = 0 /\ Truthy(title)

\* line 660 with === in place of !==
HasCorrectIdEqual(searchData, id) ==
    /\ searchData.hasData
    /\ Len(searchData.data) > 0
    /\ searchData.data[1] = id

\* lines 658-660: the top match is another id than the stored one
HasCorrectId(searchData, id) ==
    /\ searchData.hasData
    /\ Len(searchData.data) > 0
    /\ searchData.data[1] # id

\* lines 595-600: the scrape library's chapters, mapped in the order given
MapKakalot(list) ==
    [i \in 1..Len(list) |->
        [id |-> list[i].id, chapter |-> list[i].chapter, lang |-> "en"]]

NumStr(n) ==
    CASE n = 1 -> "1" [] n = 2 -> "2" [] n = 3 -> "3" [] n = 4 -> "4" [] OTHER -> "5"

\* src/src/App.tsx lines 1160-1167: the scraper's chapters in the feed's shape
RemapScraped(data) ==
    [index \in 1..Len(data) |->
        [id |-> data[index].url,
         chapter |-> IF Truthy(data[index].chapter) THEN data[index].chapter
                     ELSE NumStr(Len(data) - (index - 1)),
         lang |-> "en"]]

NoChapterResponse == [status |-> "none", body |-> <<>>]

NoList == [status |-> "none", list |-> <<>>]

NoRequest == [id |-> "m1", title |-> "", source |-> "mangadex"]

\* a request of the reader (App.tsx line 1146; part_002 lines 585-589)
ChaptersRequest ==
    /\ cpc = "idle"
    /\ \E id \in MangaIds, title \in Titles, source \in Sources :
        /\ creq' = [id |-> id, title |-> title, source |-> source]
        /\ cpc' = IF source = "mangakakalot" THEN "kakalot" ELSE "byId"
    /\ UNCHANGED <<chapters, byIdCount, csearch, cfeed, cresp, clist, cpath,
                   ccalls, lastHit>>
    /\ UNCHANGED notChapters

\* lines 589-603: source === 'mangakakalot'
ChaptersKakalot ==
    /\ cpc = "kakalot"
    /\ \E found \in BOOLEAN, list \in KakalotLists :
        /\ cresp' = [status |-> "ok",
                     body |-> IF found THEN MapKakalot(list) ELSE <<>>]
        /\ ccalls' = IF found THEN <<"kakalotSearch", "getChapters">>
                     ELSE <<"kakalotSearch">>
    /\ cpath' = "kakalot"
    /\ cpc' = "reader"
    /\ UNCHANGED <<creq, chapters, byIdCount, csearch, cfeed, clist, lastHit>>
    /\ UNCHANGED notChapters

\* lines 649-651, then 654 and 668
ChaptersById ==
    /\ cpc = "byId"
    /\ \E json \in PrimaryFeeds :
        LET list == BuildChapterList(json) IN
        /\ cfeed' = IF Len(list) = 0 THEN NoFeed
                     ELSE [for |-> creq.id, hasData |-> json.hasData,
                           data |-> json.data]
        /\ chapters' = list
        /\ byIdCount' = Len(list)
        /\ IF NeedsTitleSearch(list, creq.title)
           THEN cpc' = "search" /\ UNCHANGED cresp
           ELSE cpc' = "reader" /\ cresp' = [status |-> "ok", body |-> list]
    /\ ccalls' = Append(ccalls, "feed")
    /\ cpath' = "primary"
    /\ UNCHANGED <<creq, csearch, clist, lastHit>>
    /\ UNCHANGED notChapters

\* lines 656-660, then 668 when no other id is found
ChaptersSearch ==
    /\ cpc = "search"
    /\ \E searchData \in SearchAnswers :
        /\ csearch' = searchData
        /\ IF HasCorrectId(searchData, creq.id)
           THEN cpc' = "corrected" /\ UNCHANGED cresp
           ELSE cpc' = "reader" /\ cresp' = [status |-> "ok", body |-> chapters]
    /\ ccalls' = Append(ccalls, "search")
    /\ UNCHANGED <<creq, chapters, byIdCount, cfeed, clist, cpath, lastHit>>
    /\ UNCHANGED notChapters

\* lines 662-663, then 668
ChaptersCorrected ==
    /\ cpc = "corrected"
    /\ \E json \in PrimaryFeeds :
        LET list == BuildChapterList(json) IN
        /\ cfeed' = IF Len(list) = 0 THEN NoFeed
                     ELSE [for |-> csearch.data[1], hasData |-> json.hasData,
                           data |-> json.data]
        /\ chapters' = list
        /\ cresp' = [status |-> "ok", body |-> list]
    /\ ccalls' = Append(ccalls, "feed")
    /\ cpath' = "corrected"
    /\ cpc' = "reader"
    /\ UNCHANGED <<creq, byIdCount, csearch, clist, lastHit>>
    /\ UNCHANGED notChapters

\* a fetch or a json() of the handler throws: caught at 669, status 500
ChaptersProviderThrows ==
    /\ cpc \in {"kakalot", "byId", "search", "corrected"}
    /\ cresp' = [status |-> "error", body |-> <<>>]
    /\ ccalls' = Append(ccalls, IF cpc = "kakalot" THEN "kakalotSearch"
                                ELSE IF cpc = "search" THEN "search" ELSE "feed")
    /\ cpc' = "reader"
    /\ UNCHANGED <<creq, chapters, byIdCount, csearch, cfeed, clist, cpath, lastHit>>
    /\ UNCHANGED notChapters

\* App.tsx lines 1146-1149 and 1170: the reader takes the handler's answer
\* (the handler has returned: its locals are gone). The body of a 500 is an
\* object without length: it passes the test of 1149 and is installed as it is.
ReaderReceives ==
    /\ cpc = "reader"
    /\ IF cresp.status = "error"
       THEN cpc' = "done" /\ clist' = [status |-> "errorBody", list |-> <<>>]
       ELSE IF Len(cresp.body) = 0
       THEN cpc' = "scrape" /\ UNCHANGED clist
       ELSE cpc' = "done" /\ clist' = [status |-> "set", list |-> cresp.body]
    /\ chapters' = <<>>
    /\ byIdCount' = 0
    /\ csearch' = NoAnswer
    /\ cfeed' = NoFeed
    /\ cresp' = NoChapterResponse
    /\ UNCHANGED <<creq, cpath, ccalls, lastHit>>
    /\ UNCHANGED notChapters

\* App.tsx lines 1150-1168 with part_002 lines 747-760 and fetchMangaChapters
ReaderScrapes ==
    /\ cpc = "scrape"
    /\ \E found \in BOOLEAN, feed \in CommunityChapterFeeds :
        LET data == IF ~Truthy(creq.title) THEN <<>>
                    ELSE FetchMangaChapters(found, feed.hasData, feed.data)
        IN  /\ clist' = IF Len(data) = 0
                        THEN [status |-> "noChapters", list |-> <<>>]
                        ELSE [status |-> "set", list |-> RemapScraped(data)]
            /\ ccalls' = IF ~Truthy(creq.title) THEN ccalls
                         ELSE IF found THEN ccalls \o <<"communitySearch", "communityFeed">>
                         ELSE Append(ccalls, "communitySearch")
    /\ cpath' = "scrape"
    /\ cpc' = "done"
    /\ UNCHANGED <<creq, chapters, byIdCount, csearch, cfeed, cresp, lastHit>>
    /\ UNCHANGED notChapters

\* fetchMangaChapters rethrows (line 60): the route answers 500 with an
\* object, data.map of App.tsx 1160 throws and 1186 reports the failure
ReaderScrapeThrows ==
    /\ cpc = "scrape"
    /\ Truthy(creq.title)
    /\ clist' = [status |-> "failed", list |-> <<>>]
    /\ ccalls' = Append(ccalls, "communitySearch")
    /\ cpath' = "scrape"
    /\ cpc' = "done"
    /\ UNCHANGED <<creq, chapters, byIdCount, csearch, cfeed, cresp, lastHit>>
    /\ UNCHANGED notChapters

\* the request is over; the handler keeps nothing of it. The history notes
\* a request that the primary provider answered with chapters.
ChaptersEnd ==
    /\ cpc = "done"
    /\ lastHit' = IF cpath \in {"primary", "corrected"} /\ clist.status = "set"
                  THEN <<creq.id, creq.title>> ELSE lastHit
    /\ cpc' = "idle"
    /\ creq' = NoRequest
    /\ chapters' = <<>>
    /\ byIdCount' = 0
    /\ csearch' = NoAnswer
    /\ cfeed' = NoFeed
    /\ cresp' = NoChapterResponse
    /\ clist' = NoList
    /\ cpath' = "none"
    /\ ccalls' = <<>>
    /\ UNCHANGED notChapters

ChaptersNext ==
    ChaptersRequest \/ ChaptersKakalot \/ ChaptersById \/ ChaptersSearch
        \/ ChaptersCorrected \/ ChaptersProviderThrows \/ ReaderReceives
        \/ ReaderScrapes \/ ReaderScrapeThrows \/ ChaptersEnd

----------------------------------------------------------------------------
(* POST /api/ai/translate, step 3: grouping the OCR words into blocks,     *)
(* src/unnamed/part_002 lines 797-831. Coordinates are whole pixels. A     *)
(* block's text is kept as the sequence of the words joined by ' '; the    *)
(* OCR engine gives no word an empty text, so '' is the empty sequence.    *)

Word(text, confidence, x0, y0, w, h) ==
    [text |-> text, confidence |-> confidence,
     bbox |-> [x0 |-> x0, y0 |-> y0, x1 |-> x0 + w, y1 |-> y0 + h]]

\* words that pass the filter: 10 px wide, 10 or 20 px high, placed so that
\* against a first word at (0,0)-(10,10) every side of both tests occurs
SurvivingWords ==
    {Word(IF h = 10 THEN "a" ELSE "b", 70, x0, y0, 10, h) :
        x0 \in {0, 10, 40, 41}, y0 \in {0, 14, 15}, h \in {10, 20}}

\* words below one of the three thresholds, one that would merge with a
\* first word at (0,0)-(10,10) and one that would not
NoiseWords ==
    {Word("n", s[1], p[1], p[2], s[2], s[3]) :
        s \in {<<69, 10, 10>>, <<70, 4, 10>>, <<70, 10, 4>>},
        p \in {<<10, 0>>, <<41, 15>>}}

OcrWords == SurvivingWords \cup NoiseWords

Abs(n) == IF n < 0 THEN -n ELSE n

Min(a, b) == IF a < b THEN a ELSE b

Max(a, b) == IF a > b THEN a ELSE b

\* line 799
EmptyBlock == [text |-> <<>>, bbox |-> [x0 |-> 0, y0 |-> 0, x1 |-> 0, y1 |-> 0]]

SurvivesConfidenceOnly(word) == ~(word.confidence < 70)

\* lines 803-808: the two `continue`s
Survives(word) ==
    LET wb == word.bbox
        width == wb.x1 - wb.x0
        height == wb.y1 - wb.y0
    IN  /\ ~(word.confidence < 70)
        /\ ~(width < 5 \/ height < 5)

ShouldMergeInclusive(wb, cur) ==
    LET verticalGap == Abs(wb.y0 - cur.bbox.y0)
        horizontalGap == wb.x0 - cur.bbox.x1
        lineHeight == cur.bbox.y1 - cur.bbox.y0
    IN  /\ 2 * verticalGap < lineHeight * 3
        /\ horizontalGap > -lineHeight
        /\ horizontalGap <= lineHeight * 3

\* lines 814-819; verticalGap < lineHeight * 1.5 on whole pixels
ShouldMerge(wb, cur) ==
    LET verticalGap == Abs(wb.y0 - cur.bbox.y0)
        horizontalGap == wb.x0 - cur.bbox.x1
        lineHeight == cur.bbox.y1 - cur.bbox.y0
    IN  /\ 2 * verticalGap < lineHeight * 3
        /\ horizontalGap > -lineHeight
        /\ horizontalGap < lineHeight * 3

\* a merge that overwrites the block's text with the word's
MergeIntoOverwriting(cur, word) ==
    [text |-> <<word.text>>,
     bbox |-> [x0 |-> Min(cur.bbox.x0, word.bbox.x0),
               y0 |-> Min(cur.bbox.y0, word.bbox.y0),
               x1 |-> Max(cur.bbox.x1, word.bbox.x1),
               y1 |-> Max(cur.bbox.y1, word.bbox.y1)]]

\* lines 820-824
MergeInto(cur, word) ==
    [text |-> Append(cur.text, word.text),
     bbox |-> [x0 |-> Min(cur.bbox.x0, word.bbox.x0),
               y0 |-> Min(cur.bbox.y0, word.bbox.y0),
               x1 |-> Max(cur.bbox.x1, word.bbox.x1),
               y1 |-> Max(cur.bbox.y1, word.bbox.y1)]]

\* lines 811 and 827
BlockOf(word) == [text |-> <<word.text>>, bbox |-> word.bbox]

\* one pass of the loop body, lines 801-830, on the pair of locals
ClusterWord(st, word) ==
    IF ~Survives(word) THEN st
    ELSE IF st.currentBlock.text = <<>>
    THEN [blocks |-> st.blocks, currentBlock |-> BlockOf(word)]
    ELSE IF ShouldMerge(word.bbox, st.currentBlock)
    THEN [blocks |-> st.blocks, currentBlock |-> MergeInto(st.currentBlock, word)]
    ELSE [blocks |-> Append(st.blocks, st.currentBlock),
          currentBlock |-> BlockOf(word)]

RECURSIVE ClusterLoop(_, _)
\* the loop of lines 801-830 over a word list, from the locals of 798-799
ClusterLoop(words, n) ==
    IF n = 0 THEN [blocks |-> <<>>, currentBlock |-> EmptyBlock]
    ELSE ClusterWord(ClusterLoop(words, n - 1), words[n])

\* line 831
PushLast(st) ==
    IF st.currentBlock.text # <<>> THEN Append(st.blocks, st.currentBlock)
    ELSE st.blocks

\* lines 798-831 as a function of the word list
Cluster(words) == PushLast(ClusterLoop(words, Len(words)))

\* lines 790-799: the OCR engine has answered with at least one word
ClusterStart ==
    /\ kpc = "idle"
    /\ kpc' = "loop"
    /\ kwords' = <<>>
    /\ blocks' = <<>>
    /\ currentBlock' = EmptyBlock
    /\ UNCHANGED notCluster

\* lines 801-830: the loop takes the next word of the list
ClusterNextWord ==
    /\ kpc = "loop"
    /\ Len(kwords) < MaxWords
    /\ \E word \in OcrWords :
        LET st == ClusterWord([blocks |-> blocks, currentBlock |-> currentBlock],
                              word)
        IN  /\ kwords' = Append(kwords, word)
            /\ blocks' = st.blocks
            /\ currentBlock' = st.currentBlock
    /\ UNCHANGED kpc
    /\ UNCHANGED notCluster

\* line 831: the list is exhausted (it had at least one word, line 793)
ClusterFinish ==
    /\ kpc = "loop"
    /\ Len(kwords) >= 1
    /\ blocks' = PushLast([blocks |-> blocks, currentBlock |-> currentBlock])
    /\ kpc' = "done"
    /\ UNCHANGED <<kwords, currentBlock>>
    /\ UNCHANGED notCluster

\* the request is over; the locals are gone
ClusterEnd ==
    /\ kpc = "done"
    /\ kpc' = "idle"
    /\ kwords' = <<>>
    /\ blocks' = <<>>
    /\ currentBlock' = EmptyBlock
    /\ UNCHANGED notCluster

ClusterNext == ClusterStart \/ ClusterNextWord \/ ClusterFinish \/ ClusterEnd

----------------------------------------------------------------------------
(* The requests that run the bridge: POST /api/ai/translate from step 4    *)
(* (lines 837-890), POST /api/ai/translate-only (898-962) and              *)
(* POST /api/ai/ocr-paddle (965-1008) of src/unnamed/part_002.             *)

\* lines 838-842 and 908-912
langMap ==
    ("English" :> "en") @@ ("Spanish" :> "es") @@ ("French" :> "fr")
    @@ ("German" :> "de") @@ ("Russian" :> "ru")
    @@ ("Chinese (Simplified)" :> "zh-CN") @@ ("Japanese" :> "ja")
    @@ ("Korean" :> "ko") @@ ("Italian" :> "it") @@ ("Portuguese" :> "pt")
    @@ ("Indonesian" :> "id")

\* lines 843 and 913: langMap[targetLanguage] || 'en'
TargetCode(targetLanguage) ==
    IF targetLanguage \in DOMAIN langMap THEN langMap[targetLanguage] ELSE "en"

\* target languages of a request: names of the table, a name the reader
\* offers that the table lacks (App.tsx line 1116), and none
TargetNames == {"English", "Chinese (Simplified)", "Thai", ABSENT}

\* source languages of a request: the reader's OCR language (App.tsx lines
\* 1135 and 1290), a name of the table, and none
SourceNames == {"japan", "Japanese", ABSENT}

\* the texts of a request
TextLists == SeqsUpTo({"a", "b"}, MaxTexts)

\* what the bridge can leave on stdout: a JSON array of strings, of any
\* length, with '' for a text it did not translate; nothing; JSON that is
\* not an array; text that is not JSON
BridgeOutputs ==
    [code : {0, 1}, kind : {"array"},
     items : SeqsUpTo({"", "x", "y"}, MaxTexts + 1)]
    \cup [code : {0, 1}, kind : {"empty", "object", "null", "unparsable"},
          items : {<<>>}]

NoOutput == [code |-> 0, kind |-> "none", items |-> <<>>]

NoBridgeRequest ==
    [endpoint |-> "none", hasTexts |-> FALSE, texts |-> <<>>,
     targetLanguage |-> ABSENT, sourceLanguage |-> ABSENT,
     url |-> ABSENT, lang |-> ABSENT]

\* requests that reach the handlers
BridgeRequests ==
    \* /api/ai/translate, once the blocks are grouped: at least one block
    {[NoBridgeRequest EXCEPT !.endpoint = "translate", !.hasTexts = TRUE,
                             !.texts = t, !.targetLanguage = tl] :
        t \in TextLists \ {<<>>}, tl \in TargetNames}
    \cup
    {[NoBridgeRequest EXCEPT !.endpoint = "translate-only", !.hasTexts = TRUE,
                             !.texts = t, !.targetLanguage = tl,
                             !.sourceLanguage = sl] :
        t \in TextLists, tl \in TargetNames, sl \in SourceNames}
    \cup
    {[NoBridgeRequest EXCEPT !.endpoint = "translate-only",
                             !.targetLanguage = tl] : tl \in TargetNames}
    \cup
    {[NoBridgeRequest EXCEPT !.endpoint = "ocr-paddle", !.url = u,
                             !.lang = l] :
        u \in {"u", ABSENT}, l \in SourceNames}

NoPayload ==
    [mode |-> ABSENT, texts |-> <<>>, target_lang |-> ABSENT,
     source |-> ABSENT, url |-> ABSENT, lang |-> ABSENT]

\* the JSON written to stdin: lines 855-858, 928-933 and 984-988
Payload(req) ==
    IF req.endpoint = "translate"
    THEN [NoPayload EXCEPT
            !.texts = req.texts,
            !.target_lang = TargetCode(IF req.targetLanguage = ABSENT
                                       THEN "English" ELSE req.targetLanguage)]
    ELSE IF req.endpoint = "translate-only"
    THEN [NoPayload EXCEPT
            !.mode = "translate",
            !.texts = req.texts,
            !.target_lang = TargetCode(req.targetLanguage),
            !.source = IF Truthy(req.sourceLanguage) THEN req.sourceLanguage
                       ELSE "auto"]
    ELSE [NoPayload EXCEPT
            !.mode = "ocr",
            !.url = req.url,
            !.lang = IF Truthy(req.lang) THEN req.lang ELSE "Japanese"]

\* the request is answered before any bridge is started: lines 903-906, 968
AnsweredAtOnce(req) ==
    \/ req.endpoint = "translate-only" /\ ~req.hasTexts
    \/ req.endpoint = "ocr-paddle" /\ ~Truthy(req.url)

NoBridgeResponse == [status |-> "none", kind |-> "none", items |-> <<>>]

\* lines 866-889: translatedTexts[i] || block.text for every block, and
\* every block's own text when JSON.parse or the indexing throws
TranslateResponse(texts, out) ==
    LET usable(i) == /\ out.kind = "array"
                     /\ i <= Len(out.items)
                     /\ Truthy(out.items[i])
    IN  [status |-> "ok", kind |-> "array",
         items |-> [i \in 1..Len(texts) |->
                      [original |-> texts[i],
                       translated |-> IF usable(i) THEN out.items[i]
                                      ELSE texts[i]]]]

\* lines 945-957: [] for no output or unparsable output, else what was parsed
TranslateOnlyResponse(out) ==
    IF out.kind \in {"empty", "unparsable"}
    THEN [status |-> "ok", kind |-> "array", items |-> <<>>]
    ELSE [status |-> "ok", kind |-> out.kind, items |-> out.items]

\* lines 991-1003: the close callback
OcrResponse(out) ==
    IF out.code # 0 \/ out.kind \in {"empty", "unparsable"}
    THEN [status |-> "error", kind |-> "object", items |-> <<>>]
    ELSE [status |-> "ok", kind |-> out.kind, items |-> out.items]

\* a request arrives and its handler runs up to the wait for 'close'
\* (lines 846-863, 902-940, 967-991), or answers at once
BridgeRequest ==
    /\ bpc = "idle"
    /\ \E req \in BridgeRequests :
        /\ breq' = req
        /\ IF AnsweredAtOnce(req)
           THEN /\ bpc' = "done"
                /\ bsent' = NoPayload
                /\ bresp' = IF req.endpoint = "ocr-paddle"
                            THEN [status |-> "error", kind |-> "object",
                                  items |-> <<>>]
                            ELSE [status |-> "ok", kind |-> "array",
                                  items |-> <<>>]
           ELSE /\ bpc' = "waiting"
                /\ bsent' = Payload(req)
                /\ bresp' = NoBridgeResponse
    /\ UNCHANGED bout
    /\ UNCHANGED notBridge

\* the bridge process closes: the 'close' event of lines 862, 939 and 991.
\* Nothing in the handlers makes it happen.
BridgeCloses ==
    /\ bpc = "waiting"
    /\ \E out \in BridgeOutputs : bout' = out
    /\ bpc' = "closed"
    /\ UNCHANGED <<breq, bsent, bresp>>
    /\ UNCHANGED notBridge

\* the handler goes on after 'close': lines 865-890, 942-957, 991-1003
BridgeRespond ==
    /\ bpc = "closed"
    /\ bresp' = IF breq.endpoint = "translate"
                THEN TranslateResponse(breq.texts, bout)
                ELSE IF breq.endpoint = "translate-only"
                THEN TranslateOnlyResponse(bout)
                ELSE OcrResponse(bout)
    /\ bpc' = "done"
    /\ UNCHANGED <<breq, bsent, bout>>
    /\ UNCHANGED notBridge

\* the response has been delivered; the handler holds no state of its own
BridgeEnd ==
    /\ bpc = "done"
    /\ bpc' = "idle"
    /\ breq' = NoBridgeRequest
    /\ bsent' = NoPayload
    /\ bout' = NoOutput
    /\ bresp' = NoBridgeResponse
    /\ UNCHANGED notBridge

BridgeNext == BridgeRequest \/ BridgeCloses \/ BridgeRespond \/ BridgeEnd

----------------------------------------------------------------------------
(* GET /api/progress/:mangaId and POST /api/progress:                      *)
(* src/unnamed/part_002 lines 360-407                                      *)

UserIds == {"u1", "u2"}

\* the Authorization header: none, a token of no user, a user's token
AuthHeaders == {ABSENT, "bad"} \cup UserIds

\* supabase.auth.getUser(token), lines 365 and 386
GetUser(authHeader) == IF authHeader \in UserIds THEN authHeader ELSE Null

\* chapter id and chapter number the reader posts (App.tsx 1226-1227)
PostedChapters == {<<"c1", "1">>, <<"c2", "2">>}

PostedPages == {0, 1}

\* req.body of POST /api/progress, line 389
ProgressBodies ==
    [mangaId : MangaIds, mangaTitle : {"T"}, chapter : PostedChapters,
     pageIndex : PostedPages, totalPages : {2}]

NoRow == [user_id |-> Null, manga_id |-> Null, manga_title |-> "",
          chapter_id |-> Null, chapter_number |-> "", page_index |-> 0,
          total_pages |-> 0, updated_at |-> 0]

\* the row of lines 391-400; pageIndex || 0 and totalPages || 0 leave a
\* number as it is; updated_at is the time of the write
ProgressRow(user, body, t) ==
    [user_id |-> user,
     manga_id |-> body.mangaId,
     manga_title |-> IF Truthy(body.mangaTitle) THEN body.mangaTitle ELSE "",
     chapter_id |-> body.chapter[1],
     chapter_number |-> IF Truthy(body.chapter[2]) THEN body.chapter[2] ELSE "",
     page_index |-> body.pageIndex,
     total_pages |-> body.totalPages,
     updated_at |-> t]

SameKey(r1, r2) == r1.user_id = r2.user_id /\ r1.manga_id = r2.manga_id

UpsertInsertOnly(rows, row) == rows \cup {row}

\* .upsert(row, { onConflict: 'user_id,manga_id' }), lines 391-400: the row
\* replaces the row of the same user_id and manga_id, or is inserted
Upsert(rows, row) == {r \in rows : ~SameKey(r, row)} \cup {row}

\* .select(...).eq('user_id', ...).eq('manga_id', ...).single(), 368-375:
\* data is the row when exactly one matches, and null otherwise
SelectSingle(rows, user, mangaId) ==
    LET hits == {r \in rows : r.user_id = user /\ r.manga_id = mangaId}
    IN  IF Cardinality(hits) = 1 THEN CHOOSE r \in hits : TRUE ELSE NoRow

NoProgressResponse == [status |-> "none", row |-> NoRow]

\* POST /api/progress, lines 381-407: 401 without a user, 500 when the store
\* reports an error, else the upsert is made
PostProgress ==
    /\ writes < MaxWrites
    /\ \E authHeader \in AuthHeaders, body \in ProgressBodies,
          storeOk \in BOOLEAN :
        LET user == GetUser(authHeader)
            row == ProgressRow(user, body, writes + 1)
        IN  IF user = Null
            THEN /\ gresp' = [status |-> "unauthorized", row |-> NoRow]
                 /\ UNCHANGED <<readProgress, lastWrite, writes>>
            ELSE IF ~storeOk
            THEN /\ gresp' = [status |-> "error", row |-> NoRow]
                 /\ UNCHANGED <<readProgress, lastWrite, writes>>
            ELSE /\ readProgress' = Upsert(readProgress, row)
                 /\ lastWrite' = [lastWrite EXCEPT ![<<user, body.mangaId>>] = row]
                 /\ writes' = writes + 1
                 /\ gresp' = [status |-> "success", row |-> NoRow]
    /\ UNCHANGED notProgress

\* GET /api/progress/:mangaId, lines 360-379: null without a user
GetProgress ==
    /\ \E authHeader \in AuthHeaders, mangaId \in MangaIds :
        LET user == GetUser(authHeader)
        IN  gresp' = IF user = Null THEN [status |-> "read", row |-> NoRow]
                     ELSE [status |-> "read",
                           row |-> SelectSingle(readProgress, user, mangaId)]
    /\ UNCHANGED <<readProgress, lastWrite, writes>>
    /\ UNCHANGED notProgress

ProgressNext == PostProgress \/ GetProgress

----------------------------------------------------------------------------
(* The Reader component: src/src/App.tsx lines 1118-1396. A user action is *)
(* one step together with the renders and effects it sets off; a response  *)
(* that a run or a request was waiting for is one step. The reader is      *)
(* logged in and translation is switched on. A timeout fires when it is    *)
(* due, before anything else that happens at that instant.                 *)

\* line 1230
DEBOUNCE_MS == 800

ReaderChapters == {"A", "B"}

\* the page list the server has for a chapter
ChapterPages(ch) == IF ch = "A" THEN <<"A1", "A2">> ELSE <<"B1", "B2">>

NoTranslations == ""

\* lines 1224: the position a write carries
ProgressBody(ch, page, total) ==
    [chapterId |-> ch, pageIndex |-> page, totalPages |-> total]

NoBody == ProgressBody("none", 0, 0)

\* clearTimeout(id), lines 1218 and 1235
ClearTimeout(ts, id) == {t \in ts : t.id # id}

\* setTimeout(..., 800), lines 1219-1230
SetTimeout(ts, id, body) == ts \cup {[id |-> id, rem |-> DEBOUNCE_MS, body |-> body]}

\* the cleanup of the translate effect, line 1320
AbortRuns(rs) == {[r EXCEPT !.isAborted = TRUE] : r \in rs}

\* translatePage(), lines 1245-1259 and 1319
StartRun(rs, url) == rs \cup {[url |-> url, pc |-> "ocr", isAborted |-> FALSE]}

NoTimerDue == \A t \in timers : t.rem > 0

\* the save-progress effect has gone past its guard (line 1217) and has
\* scheduled a write for this position
NoteEvent(body) ==
    /\ sinceEvent' = 0
    /\ runWrites' = IF sinceEvent < DEBOUNCE_MS THEN runWrites ELSE 0
    /\ latestEvent' = body

\* state `chapters` once loadChapters has set it (1170): the ids, in order
ReaderChapterList == <<"A", "B">>

\* the answer of GET /api/progress/:mangaId (1176): a record of the store;
\* a chapter_id of ABSENT stands for no record, "X" is a chapter that the
\* list does not hold
ProgressRecords ==
    [chapter_id : ReaderChapters \cup {"X", ABSENT}, page_index : {0, 1}]

NoRecord == [chapter_id |-> ABSENT, page_index |-> 0]

\* data.findIndex(c => c.id === p.chapter_id) (1178): 0-based, -1 if none
FindIndex(list, id) ==
    LET hits == {i \in 1..Len(list) : list[i] = id}
    IN  IF hits = {} THEN -1
        ELSE (CHOOSE i \in hits : \A j \in hits : i <= j) - 1

\* lines 1172-1181: startChIdx and startPage for the record p
StartPosition(list, p) ==
    IF Truthy(p.chapter_id) /\ FindIndex(list, p.chapter_id) >= 0
    THEN [startChIdx |-> FindIndex(list, p.chapter_id),
          startPage |-> p.page_index]
    ELSE [startChIdx |-> 0, startPage |-> 0]

\* loadChapters has finished (1170-1185): it sets the chapter list, the
\* chapter index, the chapter and the page of the restored position. In the
\* render that follows, the load-pages effect empties the page list, sets
\* the page to 0 and asks for the pages (1196-1203); the save-progress and
\* translate effects return at their guards (pages is empty).
OpenReader ==
    /\ ~rmounted
    /\ navs < MaxNav
    /\ rmounted' = TRUE
    /\ \E p \in ProgressRecords :
        LET start == StartPosition(ReaderChapterList, p)
            ch == ReaderChapterList[start.startChIdx + 1]
        IN  /\ chapterIndex' = start.startChIdx
            /\ currentChapter' = ch
            /\ pageFetches' = {ch}
            /\ restored' = IF FindIndex(ReaderChapterList, p.chapter_id) >= 0
                           THEN p ELSE NoRecord
    /\ pages' = <<>>
    /\ currentPage' = 0
    /\ translations' = NoTranslations
    /\ runs' = {}
    /\ progressTimerRef' = 0
    /\ navs' = navs + 1
    /\ UNCHANGED <<timers, timersSet, sinceEvent, runWrites, latestEvent,
                   lastPost>>
    /\ UNCHANGED notReader

\* setCurrentPage(newPage) with another page (1352, 1337, 1346): the
\* save-progress effect (1216-1236) and the translate effect (1239-1321) run
\* again
PageChanged(newPage) ==
    LET body == ProgressBody(currentChapter, newPage, Len(pages))
    IN  /\ currentPage' = newPage
        /\ timers' = SetTimeout(ClearTimeout(timers, progressTimerRef),
                                timersSet + 1, body)
        /\ NoteEvent(body)
        /\ runs' = StartRun(AbortRuns(runs), pages[newPage + 1])
        /\ progressTimerRef' = timersSet + 1
        /\ timersSet' = timersSet + 1
        /\ translations' = NoTranslations
        /\ UNCHANGED <<rmounted, currentChapter, pages, pageFetches, lastPost>>

\* handlePageChange (1350-1353)
FlipPage ==
    /\ rmounted
    /\ navs < MaxNav
    /\ NoTimerDue
    /\ pages # <<>>
    /\ \E newPage \in (0..(Len(pages) - 1)) \ {currentPage} :
        PageChanged(newPage)
    /\ navs' = navs + 1
    /\ restored' = NoRecord
    /\ UNCHANGED chapterIndex
    /\ UNCHANGED notReader

\* setCurrentChapter(ch) with another chapter, from the side bar (1384) or
\* from goNextChapter / goPrevChapter (1335-1336, 1345-1346), which also set
\* the page to 0 (resetPage). First render: the load-pages effect empties
\* the list and asks for the pages, the save-progress effect schedules a
\* write if pages are still there. Second render (pages = []): the cleanup
\* of the save-progress effect clears that timeout, its guard returns; the
\* translate effect aborts its run and clears the translations.
ChapterChanged(ch, resetPage) ==
    /\ currentChapter' = ch
    /\ pageFetches' = pageFetches \cup {ch}
    /\ IF pages # <<>>
       THEN /\ NoteEvent(ProgressBody(ch, IF resetPage THEN 0 ELSE currentPage,
                                      Len(pages)))
            /\ timers' = ClearTimeout(
                            SetTimeout(ClearTimeout(timers, progressTimerRef),
                                       timersSet + 1,
                                       ProgressBody(ch, IF resetPage THEN 0
                                                        ELSE currentPage,
                                                    Len(pages))),
                            timersSet + 1)
            /\ progressTimerRef' = timersSet + 1
            /\ timersSet' = timersSet + 1
       ELSE UNCHANGED <<sinceEvent, runWrites, latestEvent, timers,
                        progressTimerRef, timersSet>>
    /\ pages' = <<>>
    /\ currentPage' = 0
    /\ translations' = NoTranslations
    /\ runs' = AbortRuns(runs)
    /\ UNCHANGED <<rmounted, lastPost>>

\* a chapter is picked in the side bar (1382-1385): only the chapter is set
SelectChapter ==
    /\ rmounted
    /\ navs < MaxNav
    /\ NoTimerDue
    /\ \E ch \in ReaderChapters \ {currentChapter} : ChapterChanged(ch, FALSE)
    /\ navs' = navs + 1
    /\ restored' = NoRecord
    /\ UNCHANGED chapterIndex
    /\ UNCHANGED notReader

\* goNextChapter / goPrevChapter have set the index to `index` (1334, 1344),
\* the chapter to chapters[index] and the page to 0. When that chapter is
\* the one on display already, only the page changes, if it was not 0.
ChapterStep(index) ==
    LET ch == ReaderChapterList[index + 1]
    IN  /\ chapterIndex' = index
        /\ IF ch # currentChapter
           THEN ChapterChanged(ch, TRUE)
           ELSE IF pages # <<>> /\ currentPage # 0
           THEN PageChanged(0)
           ELSE UNCHANGED <<rmounted, currentChapter, pages, currentPage,
                            pageFetches, translations, runs, timers,
                            progressTimerRef, timersSet, sinceEvent, runWrites,
                            latestEvent, lastPost>>
        /\ navs' = navs + 1
        /\ restored' = NoRecord

\* goNextChapter (1330-1339)
GoNextChapter ==
    /\ rmounted
    /\ navs < MaxNav
    /\ NoTimerDue
    /\ chapterIndex < Len(ReaderChapterList) - 1
    /\ ChapterStep(chapterIndex + 1)
    /\ UNCHANGED notReader

\* goPrevChapter (1340-1348)
GoPrevChapter ==
    /\ rmounted
    /\ navs < MaxNav
    /\ NoTimerDue
    /\ chapterIndex > 0
    /\ ChapterStep(chapterIndex - 1)
    /\ UNCHANGED notReader

\* the answer to a page request arrives (1204-1212), whichever chapter is
\* current by now. With pages: the translate effect runs again (`pages`
\* changed), the save-progress effect only if pages.length changed.
PagesArrive ==
    /\ rmounted
    /\ NoTimerDue
    /\ \E ch \in pageFetches, outcome \in {"pages", "empty", "failed"} :
        /\ pageFetches' = pageFetches \ {ch}
        /\ IF outcome = "pages"
           THEN LET data == ChapterPages(ch)
                    body == ProgressBody(currentChapter, currentPage, Len(data))
                IN  /\ pages' = data
                    /\ runs' = StartRun(AbortRuns(runs), data[currentPage + 1])
                    /\ IF Len(data) # Len(pages)
                       THEN /\ timers' = SetTimeout(
                                            ClearTimeout(timers, progressTimerRef),
                                            timersSet + 1, body)
                            /\ progressTimerRef' = timersSet + 1
                            /\ timersSet' = timersSet + 1
                            /\ NoteEvent(body)
                            /\ translations' = NoTranslations
                       ELSE UNCHANGED <<timers, progressTimerRef, timersSet,
                                        sinceEvent, runWrites, latestEvent,
                                        translations>>
           ELSE UNCHANGED <<pages, runs, timers, progressTimerRef, timersSet,
                            sinceEvent, runWrites, latestEvent, translations>>
    /\ UNCHANGED <<rmounted, currentChapter, currentPage, navs, lastPost>>
    /\ UNCHANGED <<chapterIndex, restored>>
    /\ UNCHANGED notReader

\* the Reader leaves the screen: the cleanups of 1235 and 1320 run, and no
\* later answer reaches the state of this Reader
CloseReader ==
    /\ rmounted
    /\ navs < MaxNav
    /\ NoTimerDue
    /\ rmounted' = FALSE
    /\ timers' = ClearTimeout(timers, progressTimerRef)
    /\ progressTimerRef' = 0
    /\ currentChapter' = "none"
    /\ pages' = <<>>
    /\ currentPage' = 0
    /\ pageFetches' = {}
    /\ translations' = NoTranslations
    /\ runs' = {}
    /\ navs' = navs + 1
    /\ chapterIndex' = 0
    /\ restored' = NoRecord
    /\ UNCHANGED <<timersSet, sinceEvent, runWrites, latestEvent, lastPost>>
    /\ UNCHANGED notReader

\* the refresh button (1643), or a new target or OCR language (1355-1356,
\* 1567): only the translate effect runs again (1321); its cleanup aborts the
\* run in flight and a new run starts for the page on display
Retranslate ==
    /\ rmounted
    /\ navs < MaxNav
    /\ NoTimerDue
    /\ pages # <<>>
    /\ runs' = StartRun(AbortRuns(runs), pages[currentPage + 1])
    /\ navs' = navs + 1
    /\ UNCHANGED <<rmounted, currentChapter, pages, currentPage, pageFetches,
                   translations, timers, progressTimerRef, timersSet,
                   sinceEvent, runWrites, latestEvent, lastPost>>
    /\ UNCHANGED <<chapterIndex, restored>>
    /\ UNCHANGED notReader

\* the OCR request of a run is answered (1259-1272)
RunOcrAnswered ==
    /\ \E r \in runs, ok \in BOOLEAN :
        /\ r.pc = "ocr"
        /\ runs' = IF r.isAborted \/ ~ok THEN runs \ {r}
                   ELSE (runs \ {r}) \cup {[r EXCEPT !.pc = "ocrJson"]}
    /\ UNCHANGED <<rmounted, currentChapter, pages, currentPage, pageFetches,
                   translations, timers, progressTimerRef, timersSet, navs,
                   sinceEvent, runWrites, latestEvent, lastPost>>
    /\ UNCHANGED <<chapterIndex, restored>>
    /\ UNCHANGED notReader

\* the body of the OCR answer has been read (1274-1284): an error throws,
\* no block clears the translations, else the translate request is sent
RunOcrParsed ==
    /\ \E r \in runs, result \in {"error", "noBlocks", "blocks"} :
        /\ r.pc = "ocrJson"
        /\ runs' = IF result = "blocks"
                   THEN (runs \ {r}) \cup {[r EXCEPT !.pc = "translate"]}
                   ELSE runs \ {r}
        /\ translations' = IF result = "noBlocks" THEN NoTranslations
                           ELSE translations
    /\ UNCHANGED <<rmounted, currentChapter, pages, currentPage, pageFetches,
                   timers, progressTimerRef, timersSet, navs, sinceEvent,
                   runWrites, latestEvent, lastPost>>
    /\ UNCHANGED <<chapterIndex, restored>>
    /\ UNCHANGED notReader

\* the translate request of a run is answered (1284-1295)
RunTranslateAnswered ==
    /\ \E r \in runs, ok \in BOOLEAN :
        /\ r.pc = "translate"
        /\ runs' = IF r.isAborted \/ ~ok THEN runs \ {r}
                   ELSE (runs \ {r}) \cup {[r EXCEPT !.pc = "translateJson"]}
    /\ UNCHANGED <<rmounted, currentChapter, pages, currentPage, pageFetches,
                   translations, timers, progressTimerRef, timersSet, navs,
                   sinceEvent, runWrites, latestEvent, lastPost>>
    /\ UNCHANGED <<chapterIndex, restored>>
    /\ UNCHANGED notReader

\* the body of the translate answer has been read (1297-1310): the run
\* sets the translations of its page
RunTranslateParsed ==
    /\ \E r \in runs :
        /\ r.pc = "translateJson"
        /\ runs' = runs \ {r}
        /\ translations' = r.url
    /\ UNCHANGED <<rmounted, currentChapter, pages, currentPage, pageFetches,
                   timers, progressTimerRef, timersSet, navs, sinceEvent,
                   runWrites, latestEvent, lastPost>>
    /\ UNCHANGED <<chapterIndex, restored>>
    /\ UNCHANGED notReader

\* a timeout is due: the callback of 1219-1229 posts the position it was
\* created with
TimerFires ==
    /\ \E t \in timers :
        /\ t.rem = 0
        /\ timers' = timers \ {t}
        /\ lastPost' = t.body
    /\ runWrites' = runWrites + 1
    /\ UNCHANGED <<rmounted, currentChapter, pages, currentPage, pageFetches,
                   translations, runs, progressTimerRef, timersSet, navs,
                   sinceEvent, latestEvent>>
    /\ UNCHANGED <<chapterIndex, restored>>
    /\ UNCHANGED notReader

\* time passes, up to the moment the next timeout is due; the instants
\* looked at are 1 ms, 799 ms and 800 ms after the latest event
ReaderTick ==
    /\ sinceEvent < DEBOUNCE_MS
    /\ \E d \in {1, DEBOUNCE_MS - 1} :
        /\ sinceEvent + d \in {1, DEBOUNCE_MS - 1, DEBOUNCE_MS}
        /\ \A t \in timers : t.rem >= d
        /\ timers' = {[t EXCEPT !.rem = t.rem - d] : t \in timers}
        /\ sinceEvent' = sinceEvent + d
    /\ UNCHANGED <<rmounted, currentChapter, pages, currentPage, pageFetches,
                   translations, runs, progressTimerRef, timersSet, navs,
                   runWrites, latestEvent, lastPost>>
    /\ UNCHANGED <<chapterIndex, restored>>
    /\ UNCHANGED notReader

ReaderNext ==
    OpenReader \/ FlipPage \/ SelectChapter \/ GoNextChapter \/ GoPrevChapter
        \/ PagesArrive \/ CloseReader
        \/ RunOcrAnswered \/ RunOcrParsed \/ RunTranslateAnswered
        \/ RunTranslateParsed \/ TimerFires \/ ReaderTick \/ Retranslate

----------------------------------------------------------------------------
(* Specifications *)

Init ==
    /\ apiCache = [k \in {} |-> [data |-> Null, ts |-> 0]]
    /\ now = 0
    /\ ticks = 0
    /\ lastSet = [k \in {} |-> [data |-> Null, ts |-> 0]]
    /\ got = NoGet
    /\ lpc = "idle"
    /\ lreq = NoListingRequest
    /\ lanswer = NoListingAnswer
    /\ lresp = NoListingResponse
    /\ lbefore = apiCache
    /\ ppc = "idle"
    /\ preq = [id |-> "c1", source |-> "mangadex"]
    /\ pjson = NoJson
    /\ presp = NoResponse
    /\ pcalls = <<>>
    /\ pused = "none"
    /\ pworld = NoWorld
    /\ cpc = "idle"
    /\ creq = NoRequest
    /\ chapters = <<>>
    /\ byIdCount = 0
    /\ csearch = NoAnswer
    /\ cfeed = NoFeed
    /\ cresp = NoChapterResponse
    /\ clist = NoList
    /\ cpath = "none"
    /\ ccalls = <<>>
    /\ lastHit = <<>>
    /\ kpc = "idle"
    /\ kwords = <<>>
    /\ blocks = <<>>
    /\ currentBlock = EmptyBlock
    /\ bpc = "idle"
    /\ breq = NoBridgeRequest
    /\ bsent = NoPayload
    /\ bout = NoOutput
    /\ bresp = NoBridgeResponse
    /\ readProgress = {}
    /\ lastWrite = [k \in UserIds \X MangaIds |-> NoRow]
    /\ writes = 0
    /\ gresp = NoProgressResponse
    /\ rmounted = FALSE
    /\ currentChapter = "none"
    /\ pages = <<>>
    /\ currentPage = 0
    /\ pageFetches = {}
    /\ translations = NoTranslations
    /\ runs = {}
    /\ timers = {}
    /\ progressTimerRef = 0
    /\ timersSet = 0
    /\ navs = 0
    /\ sinceEvent = DEBOUNCE_MS
    /\ runWrites = 0
    /\ latestEvent = NoBody
    /\ lastPost = NoBody
    /\ chapterIndex = 0
    /\ restored = NoRecord

SpecCache == Init /\ [][CacheNext]_vars

SpecListing == Init /\ [][ListingNext]_vars

SpecPages == Init /\ [][PagesNext]_vars

SpecChapters == Init /\ [][ChaptersNext]_vars

SpecCluster == Init /\ [][ClusterNext]_vars

SpecBridge == Init /\ [][BridgeNext]_vars

SpecProgress == Init /\ [][ProgressNext]_vars

SpecReader == Init /\ [][ReaderNext]_vars

\* time passes, and the event loop runs the callback of a timeout that is due
FairSpecReader ==
    SpecReader /\ WF_vars(ReaderTick) /\ WF_vars(TimerFires)

\* the event loop runs a handler whose event has arrived, and delivers its
\* response; whether the bridge process ever closes is not in its hands
FairSpecBridge ==
    SpecBridge /\ WF_vars(BridgeRespond) /\ WF_vars(BridgeEnd)

----------------------------------------------------------------------------
(* Claims about the page cascade *)

Range(f) == {f[i] : i \in DOMAIN f}

\* the request went to the primary provider, which answered
PrimaryAnswered == ppc = "done" /\ pjson.answered

\* the first upload of the community feed with the chapter's number
FirstUpload(world) ==
    LET hits == {i \in 1..Len(world.feed) : world.feed[i].chapter = world.chapter}
    IN  IF hits = {} THEN 0 ELSE CHOOSE i \in hits : \A j \in hits : i <= j

\* C1: when the primary provider's answer holds no full-quality and no
\* data-saver page, the community fallback is queried with the title and the
\* chapter number of the chapter's metadata, and when the community index has
\* an entry of that number with pages, those page URLs are the response.
C1_FallbackQueried ==
    (/\ PrimaryAnswered
     /\ SelectTier(pjson) = "none"
     /\ Truthy(pworld.chapter)
     /\ Truthy(pworld.title))
    => /\ "fetchMangaChapters" \in Range(pcalls)
       /\ (FirstUpload(pworld) # 0 /\ pworld.filesOf[FirstUpload(pworld)] # <<>>)
            => /\ presp.status = "ok"
               /\ presp.pages = PageUrls("data", pworld.filesOf[FirstUpload(pworld)])

\* C2: when full quality, data saver and the community fallback all yield no
\* page, the request ends with the empty list and a success outcome.
C2_EmptyIsSuccess ==
    (/\ PrimaryAnswered
     /\ SelectTier(pjson) = "none"
     /\ CommunityFallback(pworld).pages = <<>>)
    => presp = [status |-> "ok", pages |-> <<>>]

\* C3: when the primary provider returns at least one full-quality page the
\* response is the full-quality list, the data-saver list is not used and no
\* fallback call is made; when full quality is empty and data saver is not,
\* no fallback call is made.
C3_CascadeIdempotence ==
    /\ (PrimaryAnswered /\ pjson.ok /\ Len(pjson.data) > 0)
        => /\ presp = [status |-> "ok", pages |-> PageUrls("data", pjson.data)]
           /\ pused = "data"
           /\ pcalls = <<"atHome">>
    /\ (PrimaryAnswered /\ pjson.ok /\ Len(pjson.data) = 0 /\ Len(pjson.dataSaver) > 0)
        => /\ presp = [status |-> "ok", pages |-> PageUrls("data-saver", pjson.dataSaver)]
           /\ pcalls = <<"atHome">>

\* a chapter with both tiers, while the community index has the chapter too
C3_Witness ==
    /\ PrimaryAnswered
    /\ pjson.ok
    /\ Len(pjson.data) > 0
    /\ Len(pjson.dataSaver) > 0
    /\ pjson.data # pjson.dataSaver
    /\ CommunityFallback(pworld).pages # <<>>
    /\ pused = "data"

----------------------------------------------------------------------------
(* Claims about the chapter resolution *)

\* a chapter number that is present and is not chapter 0
Numbered(chapNum) == Truthy(chapNum) /\ chapNum \notin {"0", "0.0"}

\* the reader has been given a chapter list
ListReturned == cpc = "done" /\ clist.status = "set"

\* C4: on every path the chapterNumber values of the returned list are
\* pairwise distinct and in ascending numeric order.
C4_DistinctAscending ==
    ListReturned =>
        \A i, j \in 1..Len(clist.list) :
            i < j => /\ clist.list[i].chapter # clist.list[j].chapter
                     /\ Truthy(clist.list[i].chapter)
                     /\ Truthy(clist.list[j].chapter)
                     /\ ParseFloat10(clist.list[i].chapter)
                            <= ParseFloat10(clist.list[j].chapter)

\* the position in the feed of the entry that language priority selects for
\* chapter number n: lowest index in langPriority, the first seen among equals
PreferredEntry(data, n) ==
    LET E == {i \in 1..Len(data) : data[i].chapter = n}
        Pri(i) == IndexOf(langPriority, data[i].lang)
    IN  CHOOSE i \in E :
            \A j \in E \ {i} : Pri(i) < Pri(j) \/ (Pri(i) = Pri(j) /\ i < j)

\* C5: of the feed entries of one chapter number, the list built keeps exactly
\* the one whose language has the lowest index in the priority list, and among
\* entries of equal priority the first one of the feed.
C5_LanguagePriority ==
    (cfeed # NoFeed) =>
        \A n \in {cfeed.data[i].chapter : i \in 1..Len(cfeed.data)} :
            Numbered(n) =>
                LET kept == {k \in 1..Len(chapters) : chapters[k].chapter = n}
                IN  /\ Cardinality(kept) = 1
                    /\ \A k \in kept :
                        chapters[k] = cfeed.data[PreferredEntry(cfeed.data, n)]

\* a chapter first seen in ja and then in en, and a chapter uploaded twice in
\* one language, in one feed
C5_Witness ==
    /\ cfeed # NoFeed
    /\ \E i, j \in 1..Len(cfeed.data) :
        /\ i < j
        /\ Numbered(cfeed.data[i].chapter)
        /\ cfeed.data[i].chapter = cfeed.data[j].chapter
        /\ cfeed.data[i].lang = "ja"
        /\ cfeed.data[j].lang = "en"
        /\ \E k \in 1..Len(chapters) : chapters[k] = cfeed.data[j]

\* C6: no chapter whose number is missing, "0" or "0.0" is in a returned list,
\* whichever path produced the list.
C6_NoChapterZero ==
    ListReturned =>
        \A i \in 1..Len(clist.list) : Numbered(clist.list[i].chapter)

\* the title search's top match is another id than the one given
FoundOtherId ==
    /\ csearch.hasData
    /\ Len(csearch.data) > 0
    /\ csearch.data[1] # creq.id

\* C7: when the lookup by the given id built no chapter, the title is not
\* empty and the title search finds another id, the feed of that id is
\* fetched, and when it holds numbered chapters the response is the list built
\* from it, not the empty list.
C7_StaleIdCorrection ==
    (/\ cpc = "reader"
     /\ cresp.status = "ok"
     /\ creq.source = "mangadex"
     /\ byIdCount = 0
     /\ creq.title # ""
     /\ FoundOtherId)
    => /\ ccalls = <<"feed", "search", "feed">>
       /\ (cfeed # NoFeed) =>
            /\ cfeed.for = csearch.data[1]
            /\ cresp.body # <<>>
            /\ cresp.body = BuildChapterList(cfeed)

C7_Witness ==
    /\ cpc = "reader"
    /\ byIdCount = 0
    /\ FoundOtherId
    /\ cfeed.for = csearch.data[1]
    /\ Len(cresp.body) > 1

\* C8: once a call has obtained chapters from the primary provider, a later
\* call with the same id and title (no time passes between the requests of
\* this specification, so it is made less than TTL afterwards) makes no
\* provider call.
C8_AnsweredFromCache ==
    (cpc = "done" /\ creq.source = "mangadex" /\ lastHit = <<creq.id, creq.title>>)
        => ccalls = <<>>

----------------------------------------------------------------------------
(* Claims about the TTL cache *)

\* C9: a value stored by set at time t is returned by get at every time
\* strictly before t + TTL and is treated as absent at every time at or after
\* t + TTL, provided no later set on that key (lastSet holds the latest set).
C9_CacheTTL ==
    (got.key \in DOMAIN lastSet) =>
        IF now < lastSet[got.key].ts + CACHE_TTL
        THEN got.result = lastSet[got.key].data
        ELSE got.result = Null

\* a get exactly TTL after the set, answered absent
C9_Witness ==
    /\ got.key \in DOMAIN lastSet
    /\ now = lastSet[got.key].ts + CACHE_TTL
    /\ got.result = Null

\* C10: after a get on a key whose entry has expired, that entry is no longer
\* stored in the cache.
C10_LazyEviction ==
    (got.key \in DOMAIN lastSet /\ now >= lastSet[got.key].ts + CACHE_TTL)
        => got.key \notin DOMAIN apiCache

----------------------------------------------------------------------------
(* Claims about provider failures *)

\* C11: a provider call of the chapter resolution that fails with a network
\* or malformed-response error is treated like an empty answer of that
\* provider: the handler does not answer with an error, and the reader ends
\* with a chapter list or with "no chapters", never with a failure.
C11_FailureIsEmpty ==
    /\ cresp.status # "error"
    /\ clist.status \notin {"errorBody", "failed"}

----------------------------------------------------------------------------
(* Claims about the grouping of OCR words *)

BoxWidth(b) == b.x1 - b.x0

BoxHeight(b) == b.y1 - b.y0

\* a token the noise filter is to discard
IsNoise(word) ==
    \/ word.confidence < 70
    \/ BoxWidth(word.bbox) < 5
    \/ BoxHeight(word.bbox) < 5

NotNoise(word) == ~IsNoise(word)

\* C17: no token with confidence below 70, width below 5 px or height below
\* 5 px contributes text or extent to a block, changes the running block or
\* changes the merge decisions after it: at every point of the loop, and at
\* its end, the blocks are those of the word list with these tokens removed.
C17_NoiseFilter ==
    kpc \in {"loop", "done"} =>
        LET kept == SelectSeq(kwords, NotNoise)
            st == ClusterLoop(kept, Len(kept))
        IN  IF kpc = "loop"
            THEN blocks = st.blocks /\ currentBlock = st.currentBlock
            ELSE blocks = PushLast(st)

\* a noise token between two tokens that were merged into one block
C17_Witness ==
    /\ kpc = "done"
    /\ Len(kwords) = 3
    /\ NotNoise(kwords[1])
    /\ IsNoise(kwords[2])
    /\ NotNoise(kwords[3])
    /\ Len(blocks) = 1
    /\ Len(blocks[1].text) = 2

\* C18: a surviving token is merged into the current block exactly when the
\* vertical gap to the current block is below 1.5 times the block's height
\* and the horizontal gap lies strictly between minus that height and 3
\* times that height; otherwise the current block is pushed to the output
\* and the token starts a new block. The vertical gap is the distance of
\* the token's top from the block's top, the horizontal gap the distance of
\* the token's left edge from the block's right edge.
C18_MergeRule ==
    [][(/\ kpc = "loop"
        /\ kpc' = "loop"
        /\ Len(kwords') = Len(kwords) + 1
        /\ NotNoise(kwords'[Len(kwords')])
        /\ currentBlock.text # <<>>)
       => LET word == kwords'[Len(kwords')]
              h == BoxHeight(currentBlock.bbox)
              vgap == Abs(word.bbox.y0 - currentBlock.bbox.y0)
              hgap == word.bbox.x0 - currentBlock.bbox.x1
          IN  IF 2 * vgap < 3 * h /\ -h < hgap /\ hgap < 3 * h
              THEN /\ blocks' = blocks
                   /\ currentBlock'.text = Append(currentBlock.text, word.text)
                   /\ currentBlock'.bbox.x0 = Min(currentBlock.bbox.x0, word.bbox.x0)
                   /\ currentBlock'.bbox.y0 = Min(currentBlock.bbox.y0, word.bbox.y0)
                   /\ currentBlock'.bbox.x1 = Max(currentBlock.bbox.x1, word.bbox.x1)
                   /\ currentBlock'.bbox.y1 = Max(currentBlock.bbox.y1, word.bbox.y1)
              ELSE /\ blocks' = Append(blocks, currentBlock)
                   /\ currentBlock' = [text |-> <<word.text>>, bbox |-> word.bbox]
      ]_vars

\* a block has been closed by a token failing the test, and the running
\* block holds a token that passed it
C18_Witness ==
    /\ kpc = "loop"
    /\ Len(blocks) >= 1
    /\ Len(currentBlock.text) >= 2

\* the y-ranges of two boxes share more than a point
OverlapY(a, b) == a.y0 < b.y1 /\ b.y0 < a.y1

\* the second box begins at the right edge of the first, or within one
\* line height of it
AdjacentX(a, b) == b.x0 >= a.x1 /\ b.x0 - a.x1 < BoxHeight(a)

\* C19: two surviving tokens with overlapping y-ranges and adjacent x-ranges
\* end in one block, and two surviving tokens whose horizontal gap exceeds 3
\* times the line height end in two blocks.
C19_TwoTokens ==
    (/\ kpc = "done"
     /\ Len(kwords) = 2
     /\ NotNoise(kwords[1])
     /\ NotNoise(kwords[2]))
    => LET a == kwords[1].bbox
           b == kwords[2].bbox
       IN  /\ (OverlapY(a, b) /\ AdjacentX(a, b)) => Len(blocks) = 1
           /\ (b.x0 - a.x1 > 3 * BoxHeight(a)) => Len(blocks) = 2

----------------------------------------------------------------------------
(* Claims about the translation bridge *)

\* a translate request with a texts array has been answered
TranslateAnswered ==
    /\ bpc = "done"
    /\ breq.endpoint \in {"translate", "translate-only"}
    /\ breq.hasTexts

\* the text the response holds in slot i
SlotText(i) ==
    IF breq.endpoint = "translate" THEN bresp.items[i].translated
    ELSE bresp.items[i]

\* the bridge gave a usable translation for slot i
UsableSlot(i) ==
    /\ bout.kind = "array"
    /\ i <= Len(bout.items)
    /\ bout.items[i] # ""

\* C12: for input texts of length n and every bridge output (shorter, longer,
\* empty, non-array, unparsable) the response has exactly n entries in input
\* order, and a slot without usable translation holds its original text.
C12_OutputLength ==
    TranslateAnswered =>
        /\ bresp.kind = "array"
        /\ Len(bresp.items) = Len(breq.texts)
        /\ \A i \in 1..Len(breq.texts) :
            SlotText(i) = IF UsableSlot(i) THEN bout.items[i]
                          ELSE breq.texts[i]

\* C13: every request that has started the bridge ends with a result or an
\* error, also when the bridge never terminates.
C13_BridgeWaitBounded == (bpc = "waiting") ~> (bpc = "done")

\* the code a display name is to be sent as
ProviderCode(name) ==
    IF name \in DOMAIN langMap THEN langMap[name] ELSE "en"

\* C20: the target language and the source language of a translate request
\* are both sent to the bridge as the code the lookup table gives for the
\* name, and as the English code when the table lacks the name.
C20_LanguageMapping ==
    (bpc \in {"waiting", "closed"}
        /\ breq.endpoint \in {"translate", "translate-only"})
    => /\ bsent.target_lang = ProviderCode(breq.targetLanguage)
       /\ bsent.source = ProviderCode(breq.sourceLanguage)

----------------------------------------------------------------------------
(* Claims about the progress store *)

\* the rows the table holds for a (user, manga) pair
RowsOf(pair) ==
    {r \in readProgress : r.user_id = pair[1] /\ r.manga_id = pair[2]}

\* C16: after any sequence of progress writes the store holds at most one
\* record per (userId, mangaId), equal to the most recent write for that
\* pair; a write for one pair leaves the record of every other pair as its
\* own most recent write left it.
C16_UpsertLastWriteWins ==
    \A pair \in UserIds \X MangaIds :
        /\ Cardinality(RowsOf(pair)) <= 1
        /\ RowsOf(pair) = IF lastWrite[pair] = NoRow THEN {}
                          ELSE {lastWrite[pair]}

\* a pair written twice with different values, beside the row of another pair
C16_Witness ==
    /\ writes = 3
    /\ Cardinality(readProgress) = 2
    /\ gresp.status = "success"
    /\ \E r \in readProgress : r.updated_at = 1
    /\ \E r \in readProgress : r.updated_at = 3

----------------------------------------------------------------------------
(* Claims about the Reader *)

\* C14: in every interleaving of navigation with the answers of a
\* translatePage run, the translations shown are those of the page on
\* display, or none: a run started for a page the reader has left never
\* applies its result.
C14_NoStaleTranslations ==
    \/ translations = NoTranslations
    \/ pages # <<>> /\ translations = pages[currentPage + 1]

\* C15: a run of events, each less than the debounce window after the one
\* before, causes exactly one write: none before the window has passed
\* since the last event, one with the latest event's chapter, page index
\* and page count once it has passed.
C15_DebounceOneWrite ==
    /\ runWrites <= 1
    /\ runWrites = 1 => sinceEvent = DEBOUNCE_MS /\ lastPost = latestEvent
    /\ (latestEvent # NoBody /\ sinceEvent = DEBOUNCE_MS /\ NoTimerDue)
        => runWrites = 1

----------------------------------------------------------------------------
(* Claims about the cache's frame *)

\* C25: a get never changes an entry, so gets do not extend the life of a
\* key beyond the time of its latest set plus TTL; only a set on a key
\* replaces its value and resets its time, and a set on one key leaves the
\* entry of every other key unchanged.
C25_GetIsReadOnly ==
    [][/\ got'.key # Null => apiCache' = apiCache
       /\ (got'.key \in DOMAIN lastSet'
            /\ now' >= lastSet'[got'.key].ts + CACHE_TTL)
           => got'.result = Null
       /\ apiCache' # apiCache =>
            \E key \in CacheKeys :
                /\ key \in DOMAIN apiCache'
                /\ apiCache'[key].ts = now
                /\ \A k \in DOMAIN apiCache \ {key} :
                    k \in DOMAIN apiCache' /\ apiCache'[k] = apiCache[k]
      ]_vars

\* a get that found a key some time after its set, beside another key's entry
C25_Witness ==
    /\ got.key \in DOMAIN apiCache
    /\ got.result # Null
    /\ now > apiCache[got.key].ts
    /\ \E k \in DOMAIN apiCache : k # got.key /\ apiCache[k].ts # apiCache[got.key].ts

----------------------------------------------------------------------------
(* Claims about the cached handlers *)

\* the provider call of the request threw, answered non-OK, or answered
\* without a data list
ProviderFailed(ans) ==
    ans.thrown \/ ~ans.ok \/ ans.body # "data"

\* C26: only successful provider answers are cached -- a request of the
\* cover-proxy, trending or search handler whose provider call throws,
\* answers non-OK or answers without a data list performs no set, so the
\* cache after the request equals the cache before it.
C26_OnlySuccessCached ==
    (lpc = "done" /\ lanswer # NoListingAnswer /\ ProviderFailed(lanswer))
        => apiCache = lbefore

----------------------------------------------------------------------------
(* Claims about the order of the chapter cascade *)

\* the provider calls a step adds to the calls of the request
NewCalls == {ccalls'[i] : i \in (Len(ccalls) + 1)..Len(ccalls')}

\* C22: the chapter cascade is sequential within one request -- the title
\* search is called only after the lookup by id built zero chapters and only
\* with a non-empty title; the scrape fallback is entered only after the
\* handler answered with zero chapters, and calls the community index only
\* from there; and once the lookup by id has built at least one chapter the
\* request makes no call beyond that lookup.
C22_CascadeSequential ==
    [][/\ "search" \in NewCalls =>
            /\ ccalls = <<"feed">>
            /\ byIdCount = 0
            /\ Len(chapters) = 0
            /\ Truthy(creq.title)
       /\ (cpc' = "scrape" /\ cpc # "scrape") =>
            /\ cresp.status = "ok"
            /\ Len(cresp.body) = 0
            /\ Len(chapters) = 0
       /\ (NewCalls \cap {"communitySearch", "communityFeed"} # {}) =>
            cpc = "scrape"
       /\ byIdCount >= 1 => NewCalls = {}
       /\ (cpc = "reader" /\ Len(cresp.body) >= 1) => cpc' = "done"
      ]_vars

\* a request that went through every step: lookup by id, title search,
\* lookup by the corrected id, then the scrape fallback
C22_Witness ==
    /\ cpc = "done"
    /\ ccalls = <<"feed", "search", "feed", "communitySearch", "communityFeed">>

----------------------------------------------------------------------------
(* Claims about the community fallback's chapter list *)

\* the uploads of chapter number n in the community feed that have pages
UploadsWithPages(world, n) ==
    {i \in 1..Len(world.feed) :
        world.feed[i].chapter = n /\ world.filesOf[world.feed[i].id] # <<>>}

\* the entries of number n in the list fetchMangaChapters builds of the feed
KeptVersions(world, n) ==
    LET list == FetchMangaChapters(TRUE, TRUE, world.feed)
    IN  {list[j].url : j \in {k \in 1..Len(list) : list[k].chapter = n}}

\* C24: the community fallback's chapter list keeps exactly one version of
\* each chapter number, the first one found that is not empty -- when the
\* page fallback is due and the feed holds uploads of a number of which at
\* least one has pages, the one version kept of that number has pages.
C24_KeptVersionHasPages ==
    (/\ PrimaryAnswered
     /\ SelectTier(pjson) = "none"
     /\ Truthy(pworld.chapter)
     /\ Truthy(pworld.title))
    => \A n \in {"1", "2"} :
        UploadsWithPages(pworld, n) # {}
            => /\ Cardinality(KeptVersions(pworld, n)) = 1
               /\ \A u \in KeptVersions(pworld, n) : pworld.filesOf[u] # <<>>

----------------------------------------------------------------------------
(* Claims about the conservation of OCR tokens *)

\* the number of tokens in the blocks before block k
RECURSIVE TokensBefore(_, _)
TokensBefore(bs, k) ==
    IF k <= 1 THEN 0 ELSE TokensBefore(bs, k - 1) + Len(bs[k - 1].text)

\* the blocks built so far, the running block included
BlocksSoFar ==
    IF kpc = "done" THEN blocks
    ELSE PushLast([blocks |-> blocks, currentBlock |-> currentBlock])

Encloses(outer, inner) ==
    /\ outer.x0 <= inner.x0
    /\ outer.y0 <= inner.y0
    /\ outer.x1 >= inner.x1
    /\ outer.y1 >= inner.y1

----------------------------------------------------------------------------
(* Claims about a failing bridge in the reader *)

\* the step in which the run of the page on display learns that its OCR
\* request failed: the bridge exited non-zero or its output did not parse,
\* and /api/ai/ocr-paddle answered with status 500
OcrFailureStep ==
    /\ rmounted
    /\ navs' = navs
    /\ \E r \in runs :
        /\ r.pc = "ocr"
        /\ ~r.isAborted
        /\ runs' = runs \ {r}

\* C21: a bridge failure during OCR degrades to no overlay for the page --
\* after the failure the page is still on display, the translation list is
\* empty, and the reader goes on.
C21_OcrFailureNoOverlay ==
    [][OcrFailureStep =>
            /\ pages' = pages
            /\ currentPage' = currentPage
            /\ currentChapter' = currentChapter
            /\ translations' = NoTranslations
      ]_vars

----------------------------------------------------------------------------
(* Claims about the reader's position *)

\* C23: the reader loads the chapters and then restores progress -- when the
\* progress record names a chapter of the resolved list, the position once
\* the pages are loaded is that chapter and the record's page index, and
\* until the user navigates no progress write carries another page index.
C23_ProgressRestored ==
    [][/\ (rmounted' /\ restored' # NoRecord /\ pages' # <<>>) =>
            /\ currentChapter' = restored'.chapter_id
            /\ currentPage' = restored'.page_index
       /\ (restored # NoRecord /\ restored' = restored /\ lastPost' # lastPost) =>
            lastPost'.pageIndex = restored.page_index
      ]_vars

\* C28: in every interleaving of chapter changes with page-list responses
\* the page list held is that of the current chapter -- a response for a
\* chapter already left is never installed -- and no progress write is
\* scheduled that pairs a chapter's id with a page index and count taken
\* from the page list of another chapter.
C28_PagesOfCurrentChapter ==
    [][/\ (rmounted' /\ pages' # <<>>) => pages' = ChapterPages(currentChapter')
       /\ \A t \in timers' \ timers :
            t.rem = DEBOUNCE_MS => pages' = ChapterPages(t.body.chapterId)
      ]_vars

\* C30: after any sequence of navigation actions the current chapter is the
\* chapter of the list at the chapter index.
C30_IndexMatchesChapter ==
    rmounted => currentChapter = ReaderChapterList[chapterIndex + 1]

\* the positions a progress write can carry
ReaderPositions ==
    {ProgressBody(ch, page, Len(ChapterPages(ch))) :
        ch \in ReaderChapters, page \in {0, 1}}

\* the reader has reached position b: it is on display and the save-progress
\* effect has scheduled its write
Reached(b) ==
    /\ rmounted
    /\ pages # <<>>
    /\ b = ProgressBody(currentChapter, currentPage, Len(pages))
    /\ latestEvent = b

\* C29: for a signed-in reader the last position reached is eventually
\* persisted -- once a position is reached, either the reader moves on to a
\* later position or a write carrying that chapter and page index is issued,
\* also when the reader leaves the reader view within 800 ms.
C29_LastPositionPersisted ==
    \A b \in ReaderPositions :
        Reached(b) ~> (lastPost = b \/ latestEvent # b)

====
